---- MODULE Spec2Model ----
(***************************************************************************)
(* The Intcode machine of zichun/aoc2019 and its stream composition.       *)
(*                                                                         *)
(* Four generations of the machine are modelled, named after the day       *)
(* whose program holds them:                                               *)
(*   "d02"  Memory            u32 words, Add/Mul/Halt, fixed tape          *)
(*   "d05"  IntCode (batch)   i32 words, modes 0/1, opcodes 1-8,99, fixed  *)
(*   "d07"  IntCode<T>        as d05, streaming, output buffer, pipelines  *)
(*   "d11"  IntCode<T>        i64 words, relative mode, growable tape      *)
(*                                                                         *)
(* A memory is a sequence; the cell at address a is memory[a + 1].  A      *)
(* usize that came from casting a negative word is kept as that negative   *)
(* number: it stands for 2^64 + n (2^32 + n for a u32 word), which is      *)
(* larger than every memory length.                                        *)
(***************************************************************************)
EXTENDS Integers, Sequences, FiniteSets, TLC

VARIABLES
    gen,              \* the machine generation in use
    overflow_checks,  \* the build: TRUE panics on integer overflow (debug), FALSE wraps (release)
    topology,         \* "single" | "chain" (run_amps) | "feedback" (run_amps_part2)
    program,          \* the tape handed to init
    phase_settings,   \* the phase of each amplifier (chain, feedback)
    inputs,           \* the input list handed to a single machine
    amp,              \* machine index -> machine (IntCode / Memory struct)
    fixed,            \* machine index -> the literal values its input sequence still holds
    pipe,             \* the shared feedback queue (RefCell<VecDeque>)
    pipe_borrow,      \* the holders of a RefCell borrow of pipe
    stack,            \* the entry points in progress, innermost last
    driver,           \* the caller: [pc, last, result]
    produced,         \* machine index -> every value its Output instructions appended
    consumed,         \* machine index -> every value its Input instructions obtained
    halted,           \* machine index -> a tick of it has executed Terminate
    prev,             \* the last tick: its machine, the state before and after it, what it did
    search            \* all_permutation: the orders not yet tried, the maximum so far

vars == <<gen, overflow_checks, topology, program, phase_settings, inputs, amp, fixed,
          pipe, pipe_borrow, stack, driver, produced, consumed, halted, prev, search>>

(***************************************************************************)
(* Rust integer arithmetic                                                 *)
(***************************************************************************)

\* Rust's / and % truncate toward zero (b > 0; for a < 0 the quotient is the
\* ceiling, written so that i32::MIN is not negated).
RustDiv(a, b) == IF a >= 0 THEN a \div b ELSE (a + (b - 1)) \div b
RustRem(a, b) == a - b * RustDiv(a, b)

Pow256 == <<1, 256, 65536, 16777216>>

\* The eight bytes, least significant first, of a 32-bit word extended to 64 bits:
\* sign-extended for i32, zero-extended for u32 (whose words at or above 2^31 are
\* kept as the negative number with the same 32 bits).
Ext8(x, signed) ==
    [k \in 1..8 |-> IF k <= 4 THEN (x \div Pow256[k]) % 256
                    ELSE IF signed /\ x < 0 THEN 255 ELSE 0]

RECURSIVE Column(_, _, _, _)
Column(a, b, k, j) ==
    IF j = 0 THEN 0 ELSE a[j] * b[k + 1 - j] + Column(a, b, k, j - 1)

RECURSIVE Mul8(_, _, _, _)
Mul8(a, b, k, carry) ==
    IF k > 8 THEN <<>>
    ELSE LET s == Column(a, b, k, k) + carry
         IN  <<s % 256>> \o Mul8(a, b, k + 1, s \div 256)

RECURSIVE Add8(_, _, _, _)
Add8(a, b, k, carry) ==
    IF k > 8 THEN <<>>
    ELSE LET s == a[k] + b[k] + carry
         IN  <<s % 256>> \o Add8(a, b, k + 1, s \div 256)

\* The exact 64-bit result fits the 32-bit type.
Fits32(r, signed) ==
    \A k \in 5..8 : r[k] = (IF signed /\ r[4] >= 128 THEN 255 ELSE 0)

\* The low 32 bits, read as the word the model keeps.
Val32(r) ==
    (IF r[4] >= 128 THEN r[4] - 256 ELSE r[4]) * 16777216
        + r[3] * 65536 + r[2] * 256 + r[1]

Signed(g) == g # "d02"

\* left + right or left * right on the word type of generation g.  An i64 result
\* is the mathematical one (the tapes of the model stay far inside the i64 range).
\* A 32-bit result that does not fit panics when the build checks overflow and
\* wraps when it does not.
WordOp(g, op, left, right, checks) ==
    IF g = "d11"
    THEN [panic |-> FALSE, overflow |-> FALSE,
          v |-> IF op = "+" THEN left + right ELSE left * right]
    ELSE IF /\ left > -32768 /\ left < 32768 /\ right > -32768 /\ right < 32768
            /\ (Signed(g) \/ (left >= 0 /\ right >= 0))
    THEN [panic |-> FALSE, overflow |-> FALSE,
          v |-> IF op = "+" THEN left + right ELSE left * right]
    ELSE LET a == Ext8(left, Signed(g))
             b == Ext8(right, Signed(g))
             r == IF op = "+" THEN Add8(a, b, 1, 0) ELSE Mul8(a, b, 1, 0)
             fits == Fits32(r, Signed(g))
         IN  [panic |-> ~fits /\ checks, overflow |-> ~fits, v |-> Val32(r)]

(***************************************************************************)
(* The machine: decode                                                     *)
(***************************************************************************)

None == [some |-> FALSE, v |-> 0]
Some(x) == [some |-> TRUE, v |-> x]

NoParam == [t |-> "None", v |-> 0]
Ref(a) == [t |-> "Ref", v |-> a]
Value(x) == [t |-> "Value", v |-> x]
Relative(x) == [t |-> "Relative", v |-> x]

\* Vec::get: the cell at a usize address, or None.
\* A memory that reads as 0 outside its bounds.
GetOrZero(memory, address) ==
    IF address >= 0 /\ address < Len(memory) THEN Some(memory[address + 1]) ELSE Some(0)

\* Vec::get: None outside the bounds.
Get(memory, address) ==
    IF address >= 0 /\ address < Len(memory) THEN Some(memory[address + 1]) ELSE None

\* IntCode::init / Memory::init
init(memory) ==
    [memory |-> memory, address_ptr |-> 0, relative_ptr |-> 0,
     output_buffer |-> <<>>, is_terminated |-> FALSE]

\* The while loop of parse_op_code: the mode digits of parameter_stream, least
\* significant first, or <<"Invalid">> appended where a digit names no mode.
RECURSIVE ParameterModes(_, _)
ParameterModes(g, parameter_stream) ==
    IF parameter_stream > 0
    THEN LET digit == parameter_stream % 10
             mode == IF digit = 0 THEN "Ref"
                     ELSE IF digit = 1 THEN "Value"
                     ELSE IF digit = 2 /\ g = "d11" THEN "Relative"
                     ELSE "Invalid"
         IN  IF mode = "Invalid" THEN <<"Invalid">>
             ELSE <<mode>> \o ParameterModes(g, parameter_stream \div 10)
    ELSE <<>>

\* A parse_op_code that hands out the mode digits from the left.
parse_op_code_big_endian(g, input) ==
    LET modes == ParameterModes(g, RustDiv(input, 100))
    IN  IF modes # <<>> /\ modes[Len(modes)] = "Invalid"
        THEN [ok |-> FALSE, op_code |-> 0, parameter_mode |-> <<>>]
        ELSE [ok |-> TRUE, op_code |-> RustRem(input, 100),
              parameter_mode |-> [k \in 1..Len(modes) |-> modes[Len(modes) + 1 - k]]]

parse_op_code(g, input) ==
    LET modes == ParameterModes(g, RustDiv(input, 100))
    IN  IF modes # <<>> /\ modes[Len(modes)] = "Invalid"
        THEN [ok |-> FALSE, op_code |-> 0, parameter_mode |-> <<>>]
        ELSE [ok |-> TRUE, op_code |-> RustRem(input, 100), parameter_mode |-> modes]

\* A read_parameter that does not look at is_writing.
read_parameter_unchecked(g, m, parameter_mode, is_writing) ==
    LET parameter_value == Get(m.memory, m.address_ptr)
        parameter_type == IF parameter_mode = <<>> THEN "Ref" ELSE Head(parameter_mode)
        rest == IF parameter_mode = <<>> THEN <<>> ELSE Tail(parameter_mode)
        moved == [m EXCEPT !.address_ptr = m.address_ptr + 1]
    IN  IF ~parameter_value.some
        THEN [ok |-> FALSE, m |-> m, modes |-> parameter_mode, p |-> NoParam,
              err |-> "Invalid Address, address pointer out of bounds when reading parameter"]
        ELSE [ok |-> TRUE, m |-> moved, modes |-> rest, err |-> "",
              p |-> [t |-> parameter_type, v |-> parameter_value.v]]

\* A read_parameter that clears the word it has read.
read_parameter_clearing(g, m, parameter_mode, is_writing) ==
    LET parameter_value == Get(m.memory, m.address_ptr)
        parameter_type == IF parameter_mode = <<>> THEN "Ref" ELSE Head(parameter_mode)
        rest == IF parameter_mode = <<>> THEN <<>> ELSE Tail(parameter_mode)
        moved == [m EXCEPT !.address_ptr = m.address_ptr + 1,
                           !.memory[m.address_ptr + 1] = 0]
    IN  IF ~parameter_value.some
        THEN [ok |-> FALSE, m |-> m, modes |-> parameter_mode, p |-> NoParam, err |-> ""]
        ELSE [ok |-> TRUE, m |-> moved, modes |-> rest, err |-> "",
              p |-> [t |-> parameter_type, v |-> parameter_value.v]]

\* read_parameter: the machine with the cursor moved, the modes left, the parameter
\* (or the message of the Err).
read_parameter(g, m, parameter_mode, is_writing) ==
    LET parameter_value == Get(m.memory, m.address_ptr)
        parameter_type == IF parameter_mode = <<>> THEN "Ref" ELSE Head(parameter_mode)
        rest == IF parameter_mode = <<>> THEN <<>> ELSE Tail(parameter_mode)
        moved == [m EXCEPT !.address_ptr = m.address_ptr + 1]
        Read(p) == [ok |-> TRUE, m |-> moved, modes |-> rest, p |-> p, err |-> ""]
    IN  IF ~parameter_value.some
        THEN [ok |-> FALSE, m |-> m, modes |-> parameter_mode, p |-> NoParam,
              err |-> "Invalid Address, address pointer out of bounds when reading parameter"]
        ELSE IF parameter_type = "Ref" THEN Read(Ref(parameter_value.v))
        ELSE IF parameter_type = "Value"
        THEN IF is_writing
             THEN [ok |-> FALSE, m |-> moved, modes |-> rest, p |-> NoParam,
                   err |-> "Invalid parameter type: parameter is for a write operation"]
             ELSE Read(Value(parameter_value.v))
        ELSE Read(Relative(parameter_value.v))

\* The read_parameter calls of one match arm, in order, stopping at the first error.
RECURSIVE ReadParameters(_, _, _, _)
ReadParameters(g, m, parameter_mode, writing) ==
    IF writing = <<>> THEN [ok |-> TRUE, m |-> m, ps |-> <<>>, err |-> ""]
    ELSE LET r == read_parameter(g, m, parameter_mode, Head(writing))
         IN  IF ~r.ok THEN [ok |-> FALSE, m |-> r.m, ps |-> <<>>, err |-> r.err]
             ELSE LET more == ReadParameters(g, r.m, r.modes, Tail(writing))
                  IN  [ok |-> more.ok, m |-> more.m, ps |-> <<r.p>> \o more.ps,
                       err |-> more.err]

\* The match of read_instruction: the name of op_code, and which operands it writes.
\* A decoder that takes every unknown operation code for the Halt.
OpNameOrHalt(g, op_code) ==
    CASE op_code = 1 -> "Add"
      [] op_code = 2 -> "Mul"
      [] op_code = 3 -> "Input"
      [] op_code = 4 -> "Output"
      [] op_code = 5 -> "JumpIfTrue"
      [] op_code = 6 -> "JumpIfFalse"
      [] op_code = 7 -> "LessThan"
      [] op_code = 8 -> "Equals"
      [] op_code = 9 /\ g = "d11" -> "RelativeBase"
      [] OTHER -> "Terminate"

\* The match of read_instruction on the operation code.
OpName(g, op_code) ==
    CASE op_code = 1 -> "Add"
      [] op_code = 2 -> "Mul"
      [] op_code = 3 -> "Input"
      [] op_code = 4 -> "Output"
      [] op_code = 5 -> "JumpIfTrue"
      [] op_code = 6 -> "JumpIfFalse"
      [] op_code = 7 -> "LessThan"
      [] op_code = 8 -> "Equals"
      [] op_code = 9 /\ g = "d11" -> "RelativeBase"
      [] op_code = 99 -> "Terminate"
      [] OTHER -> "Invalid"

\* A decoder that takes no parameter for a write parameter.
WritingNothing(op) ==
    CASE op \in {"Add", "Mul", "LessThan", "Equals"} -> <<FALSE, FALSE, FALSE>>
      [] op \in {"Input", "Output", "RelativeBase"} -> <<FALSE>>
      [] op \in {"JumpIfTrue", "JumpIfFalse"} -> <<FALSE, FALSE>>
      [] OTHER -> <<>>

\* Per operation, which parameters read_instruction reads with is_writing = true.
Writing(op) ==
    CASE op \in {"Add", "Mul", "LessThan", "Equals"} -> <<FALSE, FALSE, TRUE>>
      [] op = "Input" -> <<TRUE>>
      [] op \in {"Output", "RelativeBase"} -> <<FALSE>>
      [] op \in {"JumpIfTrue", "JumpIfFalse"} -> <<FALSE, FALSE>>
      [] OTHER -> <<>>

\* An instruction record with the first two operands exchanged.
InstructionSwapped(op, ps) ==
    [op |-> op,
     p1 |-> IF Len(ps) >= 2 THEN ps[2] ELSE IF Len(ps) >= 1 THEN ps[1] ELSE NoParam,
     p2 |-> IF Len(ps) >= 2 THEN ps[1] ELSE NoParam,
     p3 |-> IF Len(ps) >= 3 THEN ps[3] ELSE NoParam]

\* The Instruction value: the operation and its operands in declaration order.
Instruction(op, ps) ==
    [op |-> op,
     p1 |-> IF Len(ps) >= 1 THEN ps[1] ELSE NoParam,
     p2 |-> IF Len(ps) >= 2 THEN ps[2] ELSE NoParam,
     p3 |-> IF Len(ps) >= 3 THEN ps[3] ELSE NoParam]

NoInstruction == Instruction("Invalid", <<>>)

\* Memory::read_instruction (day 2): the whole word is the opcode, the cursor moves
\* by four before the operands are fetched, and Terminate does not move it.
read_instruction_d02(m) ==
    LET opCode == Get(m.memory, m.address_ptr)
        moved == [m EXCEPT !.address_ptr = m.address_ptr + 4]
        left_op == Get(m.memory, m.address_ptr + 1)
        right_op == Get(m.memory, m.address_ptr + 2)
        into == Get(m.memory, m.address_ptr + 3)
    IN  IF ~opCode.some
        THEN [ok |-> FALSE, m |-> m, instruction |-> NoInstruction,
              err |-> "Invalid Address"]
        ELSE IF opCode.v \in {1, 2}
        THEN IF left_op.some /\ right_op.some /\ into.some
             THEN [ok |-> TRUE, m |-> moved,
                   instruction |-> Instruction(IF opCode.v = 1 THEN "Add" ELSE "Mul",
                                       <<Ref(left_op.v), Ref(right_op.v), Ref(into.v)>>),
                   err |-> ""]
             ELSE [ok |-> FALSE, m |-> moved, instruction |-> NoInstruction,
                   err |-> "Invalid Address"]
        ELSE IF opCode.v = 99
        THEN [ok |-> TRUE, m |-> m, instruction |-> Instruction("Terminate", <<>>),
              err |-> ""]
        ELSE [ok |-> FALSE, m |-> m, instruction |-> NoInstruction,
              err |-> "Invalid Opcode"]

\* IntCode::read_instruction
read_instruction(g, m) ==
    IF g = "d02" THEN read_instruction_d02(m)
    ELSE
    LET word == Get(m.memory, m.address_ptr)
        moved == [m EXCEPT !.address_ptr = m.address_ptr + 1]
        parsed == parse_op_code(g, word.v)
        op == OpName(g, parsed.op_code)
        read == ReadParameters(g, moved, parsed.parameter_mode, Writing(op))
    IN  IF ~word.some
        THEN [ok |-> FALSE, m |-> m, instruction |-> NoInstruction,
              err |-> "Invalid Address, address pointer out of bounds when reading instruction"]
        ELSE IF ~parsed.ok
        THEN [ok |-> FALSE, m |-> moved, instruction |-> NoInstruction,
              err |-> "Invalid OpCode"]
        ELSE IF op = "Invalid"
        THEN [ok |-> FALSE, m |-> moved, instruction |-> NoInstruction,
              err |-> "Invalid Opcode"]
        ELSE IF ~read.ok
        THEN [ok |-> FALSE, m |-> read.m, instruction |-> NoInstruction, err |-> read.err]
        ELSE [ok |-> TRUE, m |-> read.m, instruction |-> Instruction(op, read.ps),
              err |-> ""]

(***************************************************************************)
(* The machine: execute                                                    *)
(***************************************************************************)

\* A machine in which every generation faults outside the memory.
StrictEverywhere(g) == TRUE

\* A machine in which no generation faults outside the memory.
StrictNowhere(g) == FALSE

\* A machine in which only the batch machine of day 5 faults outside the memory.
StrictDay5Only(g) == g = "d05"

\* The generations that fault on an address outside the memory.
Strict(g) == g # "d11"

\* A resolve_parameter_value that takes a Relative offset for the address.
resolve_relative_as_position(g, m, parameter) ==
    LET cell == Get(m.memory, parameter.v)
    IN  IF parameter.t = "Value" THEN [ok |-> TRUE, v |-> parameter.v]
        ELSE IF cell.some THEN [ok |-> TRUE, v |-> cell.v]
        ELSE IF g # "d11" THEN [ok |-> FALSE, v |-> 0]
        ELSE [ok |-> TRUE, v |-> 0]

\* resolve_parameter_value.  A strict generation faults on an address outside the
\* memory; the lenient one reads 0 there.
resolve_parameter_value(g, m, parameter) ==
    LET address == IF parameter.t = "Relative" THEN m.relative_ptr + parameter.v
                   ELSE parameter.v
        cell == Get(m.memory, address)
    IN  IF parameter.t = "Value" THEN [ok |-> TRUE, v |-> parameter.v]
        ELSE IF cell.some THEN [ok |-> TRUE, v |-> cell.v]
        ELSE IF Strict(g) THEN [ok |-> FALSE, v |-> 0]
        ELSE [ok |-> TRUE, v |-> 0]

\* Vec::resize(new_len, 0)
Resize(memory, new_len) ==
    IF new_len <= Len(memory) THEN SubSeq(memory, 1, new_len)
    ELSE memory \o [k \in 1..(new_len - Len(memory)) |-> 0]

\* write_memory.  kind is "ok", "err" (the Err it returns) or "panic".
\* In the lenient generation an address at or beyond the length resizes the memory
\* to address + 1 first.  For the address usize::MAX (kept as -1) that sum overflows:
\* a build that checks overflow panics, one that does not resizes to 0 and then fails
\* to find the cell.  For the other addresses that came from a negative word the
\* resize asks for more than isize::MAX bytes and panics (capacity overflow).
write_memory(g, m, into, value, checks) ==
    LET address == IF into.t = "Relative" THEN m.relative_ptr + into.v ELSE into.v
        inside == address >= 0 /\ address < Len(m.memory)
        store(mem) == [m EXCEPT !.memory = [mem EXCEPT ![address + 1] = value]]
    IN  IF into.t \notin {"Ref", "Relative"} \/ (into.t = "Relative" /\ Strict(g))
        THEN [kind |-> "panic", m |-> m]
        ELSE IF inside THEN [kind |-> "ok", m |-> store(m.memory)]
        ELSE IF Strict(g) THEN [kind |-> "err", m |-> m]
        ELSE IF address = -1
        THEN IF checks THEN [kind |-> "panic", m |-> m]
             ELSE [kind |-> "err", m |-> [m EXCEPT !.memory = Resize(m.memory, 0)]]
        ELSE IF address < -1 THEN [kind |-> "panic", m |-> m]
        ELSE [kind |-> "ok", m |-> store(Resize(m.memory, address + 1))]

\* What one tick did: kind is "ok", "halt" (Terminate executed), "err" (the tick
\* returned Err) or "panic"; m is the machine it left; op the operation decoded;
\* pulled tells whether it took the value input_stream.next() returned; why is the
\* message of the Err.
Outcome(kind, m, op, pulled) ==
    [kind |-> kind, m |-> m, op |-> op, pulled |-> pulled, why |-> ""]

\* A tick that returns Err(why) and marks the machine as terminated.
FaultTerminates(m, op, pulled, why) ==
    [kind |-> "err", m |-> [m EXCEPT !.is_terminated = TRUE], op |-> op,
     pulled |-> pulled, why |-> why]

\* A tick that returns Err(why).
Fault(m, op, pulled, why) ==
    [kind |-> "err", m |-> m, op |-> op, pulled |-> pulled, why |-> why]

\* The tick ends with a write: Ok, the Err of write_memory, or its panic.
Written(w, op, pulled) ==
    IF w.kind = "err" THEN Fault(w.m, op, pulled, "Invalid address reference")
    ELSE Outcome(w.kind, w.m, op, pulled)

\* A copy-and-paste slip: the Mul arm adds.
ProductAdds(g, left, right, checks) == WordOp(g, "+", left, right, checks)

\* The sum of the Add arm and the product of the Mul arm.
Sum(g, left, right, checks) == WordOp(g, "+", left, right, checks)
Product(g, left, right, checks) == WordOp(g, "*", left, right, checks)

\* A comparison that also holds for equal operands.
less_than_or_equal(left, right) == IF left <= right THEN 1 ELSE 0

\* let less_than = if left < right { 1 } else { 0 }, and equals likewise.
less_than(left, right) == IF left < right THEN 1 ELSE 0
equals(left, right) == IF left = right THEN 1 ELSE 0

\* An arm that computes a value from two operands and writes it.
Compute(g, m, i, checks) ==
    LET left_op == resolve_parameter_value(g, m, i.p1)
        right_op == resolve_parameter_value(g, m, i.p2)
        r == CASE i.op = "Add" -> Sum(g, left_op.v, right_op.v, checks)
               [] i.op = "Mul" -> Product(g, left_op.v, right_op.v, checks)
               [] i.op = "LessThan" ->
                    [panic |-> FALSE, overflow |-> FALSE,
                     v |-> less_than(left_op.v, right_op.v)]
               [] OTHER ->
                    [panic |-> FALSE, overflow |-> FALSE,
                     v |-> equals(left_op.v, right_op.v)]
        w == write_memory(g, m, i.p3, r.v, checks)
    IN  IF ~left_op.ok \/ ~right_op.ok
        THEN Fault(m, i.op, FALSE, "Invalid address reference")
        ELSE IF r.panic THEN Outcome("panic", m, i.op, FALSE)
        ELSE Written(w, i.op, FALSE)

\* Jump arms that resolve the target before they test the condition.
JumpResolvesBoth(g, m, i) ==
    LET val == resolve_parameter_value(g, m, i.p1)
        to == resolve_parameter_value(g, m, i.p2)
        taken == IF i.op = "JumpIfTrue" THEN val.v # 0 ELSE val.v = 0
    IN  IF ~val.ok \/ ~to.ok THEN Fault(m, i.op, FALSE, "Invalid address reference")
        ELSE IF ~taken THEN Outcome("ok", m, i.op, FALSE)
        ELSE Outcome("ok", [m EXCEPT !.address_ptr = to.v], i.op, FALSE)

\* The jump arms: the target is resolved only when the jump is taken.
Jump(g, m, i) ==
    LET val == resolve_parameter_value(g, m, i.p1)
        to == resolve_parameter_value(g, m, i.p2)
        taken == IF i.op = "JumpIfTrue" THEN val.v # 0 ELSE val.v = 0
    IN  IF ~val.ok THEN Fault(m, i.op, FALSE, "Invalid address reference")
        ELSE IF ~taken THEN Outcome("ok", m, i.op, FALSE)
        ELSE IF ~to.ok THEN Fault(m, i.op, FALSE, "Invalid address reference")
        ELSE Outcome("ok", [m EXCEPT !.address_ptr = to.v], i.op, FALSE)

\* An Input arm that writes 0 when the input sequence has no value left.
InputOrZero(g, m, i, input_value, checks) ==
    Written(write_memory(g, m, i.p1, IF input_value.some THEN input_value.v ELSE 0,
                         checks),
            i.op, input_value.some)

\* The Input arm: input_stream.next() (pop_front() in the batch run), Err on None,
\* then the write.
Input(g, m, i, input_value, checks) ==
    IF ~input_value.some THEN Fault(m, i.op, FALSE, "Ran out of input")
    ELSE Written(write_memory(g, m, i.p1, input_value.v, checks), i.op, TRUE)

\* An Output arm that appends the operand word itself, whatever its mode.
OutputOperandWord(g, m, i) ==
    Outcome("ok", [m EXCEPT !.output_buffer = Append(m.output_buffer, i.p1.v)],
            i.op, FALSE)

\* The Output arm: push(resolve_parameter_value(param)?)
Output(g, m, i) ==
    LET param == resolve_parameter_value(g, m, i.p1)
    IN  IF ~param.ok THEN Fault(m, i.op, FALSE, "Invalid address reference")
        ELSE Outcome("ok", [m EXCEPT !.output_buffer = Append(m.output_buffer, param.v)],
                     i.op, FALSE)

\* A RelativeBase arm that sets the relative base to the parameter.
RelativeBaseSet(g, m, i) ==
    Outcome("ok", [m EXCEPT !.relative_ptr = resolve_parameter_value(g, m, i.p1).v],
            i.op, FALSE)

\* The RelativeBase arm: relative_ptr + resolve_parameter_value(adjust)?
RelativeBase(g, m, i) ==
    LET adjust == resolve_parameter_value(g, m, i.p1)
    IN  IF ~adjust.ok THEN Fault(m, i.op, FALSE, "Invalid address reference")
        ELSE Outcome("ok", [m EXCEPT !.relative_ptr = m.relative_ptr + adjust.v],
                     i.op, FALSE)

\* The match of run_tick / run on a decoded instruction.  input_value is what
\* input_stream.next() returns; only the Input arm calls it.
execute(g, m, i, input_value, checks) ==
    CASE i.op \in {"Add", "Mul", "LessThan", "Equals"} -> Compute(g, m, i, checks)
      [] i.op = "Input" -> Input(g, m, i, input_value, checks)
      [] i.op = "Output" -> Output(g, m, i)
      [] i.op \in {"JumpIfTrue", "JumpIfFalse"} -> Jump(g, m, i)
      [] i.op = "RelativeBase" -> RelativeBase(g, m, i)
      [] OTHER ->
            Outcome("halt",
                    IF g \in {"d07", "d11"} THEN [m EXCEPT !.is_terminated = TRUE] ELSE m,
                    i.op, FALSE)

\* A run_tick that decodes the words of the tape the machine was constructed from.
run_tick_from_tape(g, m, input_value, checks) ==
    LET d == read_instruction(g, [m EXCEPT !.memory = program])
    IN  IF ~d.ok THEN Fault([m EXCEPT !.address_ptr = d.m.address_ptr], "Invalid", FALSE, d.err)
        ELSE execute(g, [m EXCEPT !.address_ptr = d.m.address_ptr], d.instruction,
                     input_value, checks)

\* run_tick (one pass of the loop of run in the batch generations).
run_tick(g, m, input_value, checks) ==
    LET d == read_instruction(g, m)
    IN  IF ~d.ok THEN Fault(d.m, "Invalid", FALSE, d.err)
        ELSE execute(g, d.m, d.instruction, input_value, checks)

(***************************************************************************)
(* Entry points and stream composition                                     *)
(***************************************************************************)

\* The number of amplifiers run_amps and run_amps_part2 wire up.
NumAmps == 5

\* The calls a driver of a single machine makes before it stops.
MaxCalls == 2

Machines == DOMAIN amp
LastAmp == NumAmps - 1

\* A call in progress: the entry point, its machine and, while an Input instruction
\* of it waits for its input sequence, the write parameter of that instruction and
\* the machine as it was when the tick began.
Frame(fn, i) == [fn |-> fn, i |-> i, into |-> NoParam, before |-> init(<<>>)]
Top == stack[Len(stack)]
Below == stack[Len(stack) - 1]
\* A return that leaves the entry point on the stack.
PopNothing(st) == st

Pop(st) == SubSeq(st, 1, Len(st) - 1)

\* A wiring in which machines 2, 3 and 4 read the machine two places before them.
UpstreamSkipsOne(topo, i) ==
    IF topo = "single" THEN [kind |-> "none", i |-> 0]
    ELSE IF i > 1 THEN [kind |-> "machine", i |-> i - 2]
    ELSE IF i = 1 THEN [kind |-> "machine", i |-> 0]
    ELSE IF topo = "feedback" THEN [kind |-> "pipe", i |-> 0]
    ELSE [kind |-> "none", i |-> 0]

\* What follows the literal values in machine i's input sequence: the wiring of
\* run_amps and run_amps_part2 (a single machine's sequence has nothing after them).
Upstream(topo, i) ==
    IF topo = "single" THEN [kind |-> "none", i |-> 0]
    ELSE IF i > 0 THEN [kind |-> "machine", i |-> i - 1]
    ELSE IF topo = "feedback" THEN [kind |-> "pipe", i |-> 0]
    ELSE [kind |-> "none", i |-> 0]

\* A wiring in which the first machine is not handed the initial signal 0.
LiteralsWithoutSignal(topo, phases, inp, i) ==
    IF topo = "single" THEN inp ELSE <<phases[i + 1]>>

\* A wiring that hands the first machine the initial signal before its phase.
LiteralsSeedFirst(topo, phases, inp, i) ==
    IF topo = "single" THEN inp
    ELSE IF i = 0 THEN <<0, phases[1]>>
    ELSE <<phases[i + 1]>>

\* The literal values at the head of machine i's input sequence.
Literals(topo, phases, inp, i) ==
    IF topo = "single" THEN inp
    ELSE IF i = 0 THEN <<phases[1], 0>>
    ELSE <<phases[i + 1]>>

\* The entry points of each generation.
EntryPoints(g) ==
    IF g \in {"d02", "d05"} THEN {"run"}
    ELSE {"run_tick", "run_to_next_output", "run_to_termination", "next"}

\* A run_to_next_output that does not stop at an output but at the Halt.
TicksToTheHalt(fn, m) ==
    CASE fn \in {"run_to_next_output", "run_to_termination"} -> ~m.is_terminated
      [] fn \in {"run", "run_tick"} -> TRUE
      [] OTHER -> FALSE

\* The loop condition of the entry point a frame runs: whether it ticks again.
Ticks(fn, m) ==
    CASE fn = "run_to_next_output" -> Len(m.output_buffer) = 0 /\ ~m.is_terminated
      [] fn = "run_to_termination" -> ~m.is_terminated
      [] fn \in {"run", "run_tick"} -> TRUE
      [] OTHER -> FALSE

\* A pop that takes the value at the back of the buffer.
ReturnedBack(fn, m) ==
    IF fn = "run_to_termination" THEN [kind |-> "ok", opt |-> None]
    ELSE IF m.output_buffer = <<>> THEN [kind |-> "ok", opt |-> None]
    ELSE [kind |-> "ok", opt |-> Some(m.output_buffer[Len(m.output_buffer)])]

\* What a frame that ticks no more returns: run_to_next_output and
\* OutputStream::next pop the front of the output buffer, run_to_termination Ok(()).
Returned(fn, m) ==
    IF fn = "run_to_termination" THEN [kind |-> "ok", opt |-> None]
    ELSE IF m.output_buffer = <<>> THEN [kind |-> "ok", opt |-> None]
    ELSE [kind |-> "ok", opt |-> Some(Head(m.output_buffer))]

\* A pop_front that hands out the front value and leaves it in the buffer.
AfterReturnKeeps(fn, m) == m

AfterReturn(fn, m) ==
    IF fn = "run_to_termination" \/ m.output_buffer = <<>> THEN m
    ELSE [m EXCEPT !.output_buffer = Tail(m.output_buffer)]

NoResult == [kind |-> "none", opt |-> None]
Panicked == [kind |-> "panic", opt |-> None]

\* A driver that, in every topology, returns the first value it is handed.
DriverReturnsFirst(topo, d, ret) ==
    IF topo = "single" THEN [d EXCEPT !.pc = "idle", !.result = ret]
    ELSE [d EXCEPT !.pc = "done",
                   !.result = IF ret.opt.some THEN ret
                              ELSE [kind |-> "err", opt |-> None]]

\* The driver after the entry point it called returned ret.
\*   single:   the caller keeps the result and may call again
\*   chain:    run_amps returns next().ok_or("No output")
\*   feedback: the map closure of run_amps_part2 runs on Some, last() ends on None
DriverReturn(topo, d, ret) ==
    CASE topo = "single" -> [d EXCEPT !.pc = "idle", !.result = ret]
      [] topo = "chain" ->
            [d EXCEPT !.pc = "done",
                      !.result = IF ret.opt.some THEN ret
                                 ELSE [kind |-> "err", opt |-> None]]
      [] OTHER ->
            IF ret.opt.some THEN [d EXCEPT !.pc = "map", !.value = ret.opt.v]
            ELSE [d EXCEPT !.pc = "done",
                           !.result = IF d.last.some
                                      THEN [kind |-> "ok", opt |-> d.last]
                                      ELSE [kind |-> "err", opt |-> None]]

DriverPanic(d) == [d EXCEPT !.pc = "done", !.result = Panicked]

\* A borrow that is never given back.
NotReleased(holders, who) == holders

\* The temporary RefMut of pipe.borrow_mut() is dropped at the end of the statement.
Released(holders, who) == holders \ {who}

(***************************************************************************)
(* Actions                                                                 *)
(***************************************************************************)

InitRun(g, checks, topo, tape, phases, inp) ==
    /\ gen = g
    /\ overflow_checks = checks
    /\ topology = topo
    /\ program = tape
    /\ phase_settings = phases
    /\ inputs = inp
    /\ amp = [i \in 0..(IF topo = "single" THEN 0 ELSE LastAmp) |-> init(tape)]
    /\ fixed = [i \in 0..(IF topo = "single" THEN 0 ELSE LastAmp) |->
                   Literals(topo, phases, inp, i)]
    /\ pipe = <<>>
    /\ pipe_borrow = {}
    /\ stack = <<>>
    /\ driver = [pc |-> "idle", calls |-> 0, fn |-> "none", value |-> 0, last |-> None,
                 result |-> NoResult, before |-> init(tape), was_halted |-> FALSE]
    /\ produced = [i \in 0..(IF topo = "single" THEN 0 ELSE LastAmp) |-> <<>>]
    /\ consumed = [i \in 0..(IF topo = "single" THEN 0 ELSE LastAmp) |-> <<>>]
    /\ halted = [i \in 0..(IF topo = "single" THEN 0 ELSE LastAmp) |-> FALSE]
    /\ prev = [i |-> 0, m |-> init(tape), fn |-> "none", kind |-> "none", op |-> "none",
               after_halt |-> FALSE, pulled |-> FALSE, why |-> "", after |-> init(tape),
               took |-> None, call |-> 0]

\* No permutation search around the run.
NoSearch == [pc |-> "off", todo |-> {}, max |-> 0]

InitWith(g, checks, topo, tape, phases, inp) ==
    /\ InitRun(g, checks, topo, tape, phases, inp)
    /\ search = NoSearch

\* What a run leaves as it was handed.
Fixed == <<gen, overflow_checks, topology, program, phase_settings, inputs, search>>

\* The driver calls an entry point: of the single machine, or next() on the output
\* stream of the last amplifier.  The batch run clones the input list it is handed
\* and starts a fresh output vector.
Call(fn, i) ==
    /\ driver.pc = "idle"
    /\ stack = <<>>
    /\ topology = "single" => driver.calls < MaxCalls
    /\ stack' = <<Frame(fn, i)>>
    /\ driver' = [driver EXCEPT !.pc = "calling", !.calls = @ + 1, !.fn = fn,
                                !.before = amp[i], !.was_halted = halted[i]]
    /\ amp' = IF fn = "run" THEN [amp EXCEPT ![i].output_buffer = <<>>] ELSE amp
    /\ fixed' = IF fn = "run" THEN [fixed EXCEPT ![i] = inputs] ELSE fixed
    /\ UNCHANGED <<Fixed, pipe, pipe_borrow, produced, consumed, halted, prev>>

\* An input sequence that hands out its first value again and again.
pop_front_keeps(input_stream) == input_stream

\* What input_stream.pop_front() / input_stream.next() leaves of the literal values.
pop_front(input_stream) == Tail(input_stream)

\* Machines that all write to one memory (an init that would not clone the tape).
StoreShared(amps, i, m) ==
    [j \in DOMAIN amps |-> IF j = i THEN m ELSE [amps[j] EXCEPT !.memory = m.memory]]

\* A tick writes to self: the struct owns memory (memory.clone() in init),
\* address_ptr and output_buffer.
Store(amps, i, m) == [amps EXCEPT ![i] = m]

\* The rest of a tick of the machine of frame f (the top of st) once its outcome o
\* is known: took is the input value it was handed, from_fixed whether that value
\* was a literal of its own input sequence, amp0 the machines otherwise.
\*   - a panic, or an Err in run_to_next_output (which unwraps it), ends the program
\*   - an Err in run, run_tick or run_to_termination is returned to the driver
\*   - run_tick returns after one tick, run after Terminate
\*   - otherwise the loop of the entry point goes on
Complete(st, amp0, f, before, o, took, from_fixed) ==
    /\ amp' = Store(amp0, f.i, o.m)
    /\ fixed' = IF o.pulled /\ from_fixed THEN [fixed EXCEPT ![f.i] = pop_front(@)]
                ELSE fixed
    /\ produced' = IF o.op = "Output" /\ o.kind = "ok"
                   THEN [produced EXCEPT
                            ![f.i] = Append(@, o.m.output_buffer[Len(o.m.output_buffer)])]
                   ELSE produced
    /\ consumed' = IF o.pulled THEN [consumed EXCEPT ![f.i] = Append(@, took.v)]
                   ELSE consumed
    /\ halted' = IF o.kind = "halt" THEN [halted EXCEPT ![f.i] = TRUE] ELSE halted
    /\ prev' = [i |-> f.i, m |-> before, fn |-> f.fn, kind |-> o.kind, op |-> o.op,
                after_halt |-> halted[f.i], pulled |-> o.pulled, why |-> o.why,
                after |-> o.m, took |-> took, call |-> driver.calls]
    /\ IF o.kind = "panic" \/ (o.kind = "err" /\ f.fn = "run_to_next_output")
       THEN stack' = <<>> /\ driver' = DriverPanic(driver)
       ELSE IF o.kind = "err"
       THEN /\ stack' = Pop(st)
            /\ driver' = DriverReturn(topology, driver, [kind |-> "err", opt |-> None])
       ELSE IF f.fn = "run_tick" \/ (f.fn = "run" /\ o.kind = "halt")
       THEN /\ stack' = Pop(st)
            /\ driver' = DriverReturn(topology, driver, [kind |-> "ok", opt |-> None])
       ELSE /\ stack' = [st EXCEPT ![Len(st)] = Frame(f.fn, f.i)]
            /\ driver' = driver

\* An input sequence that asks upstream before it hands out its literal values.
NeedsUpstreamFirst(i, d) ==
    /\ d.ok
    /\ d.instruction.op = "Input"
    /\ Upstream(topology, i).kind # "none"

\* An Input instruction decoded by d on machine i has to ask upstream for its value.
NeedsUpstream(i, d) ==
    /\ d.ok
    /\ d.instruction.op = "Input"
    /\ fixed[i] = <<>>
    /\ Upstream(topology, i).kind # "none"

\* One tick of the entry point on top of the stack, input served by a literal of
\* the machine's own input sequence (or missing).
Tick ==
    /\ stack # <<>>
    /\ Top.into = NoParam
    /\ Ticks(Top.fn, amp[Top.i])
    /\ LET i == Top.i
           d == read_instruction(gen, amp[i])
           input_value == IF fixed[i] # <<>> THEN Some(Head(fixed[i])) ELSE None
       IN  /\ ~NeedsUpstream(i, d)
           /\ Complete(stack, amp, Top, amp[i],
                       run_tick(gen, amp[i], input_value, overflow_checks),
                       input_value, TRUE)
    /\ UNCHANGED <<Fixed, pipe, pipe_borrow>>

\* An Input instruction whose value comes from the machine upstream: the tick
\* stops after decoding and calls next() on that machine's output stream.
Pull ==
    /\ stack # <<>>
    /\ Top.into = NoParam
    /\ Ticks(Top.fn, amp[Top.i])
    /\ LET i == Top.i
           d == read_instruction(gen, amp[i])
       IN  /\ NeedsUpstream(i, d)
           /\ Upstream(topology, i).kind = "machine"
           /\ amp' = [amp EXCEPT ![i] = d.m]
           /\ stack' = Append([stack EXCEPT ![Len(stack)].into = d.instruction.p1,
                                            ![Len(stack)].before = amp[i]],
                              Frame("next", Upstream(topology, i).i))
    /\ UNCHANGED <<Fixed, fixed, pipe, pipe_borrow, driver, produced, consumed, halted,
                   prev>>

\* An OutputStream::next that, its buffer empty, runs the machine to termination.
NextRunsToTermination ==
    /\ stack # <<>>
    /\ Top.fn = "next"
    /\ amp[Top.i].output_buffer = <<>>
    /\ stack' = [stack EXCEPT ![Len(stack)].fn = "run_to_termination"]
    /\ UNCHANGED <<Fixed, amp, fixed, pipe, pipe_borrow, driver, produced, consumed,
                   halted, prev>>

\* OutputStream::next with an empty output buffer runs the machine to its next output.
NextRuns ==
    /\ stack # <<>>
    /\ Top.fn = "next"
    /\ amp[Top.i].output_buffer = <<>>
    /\ stack' = [stack EXCEPT ![Len(stack)].fn = "run_to_next_output"]
    /\ UNCHANGED <<Fixed, amp, fixed, pipe, pipe_borrow, driver, produced, consumed,
                   halted, prev>>

\* The entry point on top of the stack ticks no more.
Finished ==
    /\ stack # <<>>
    /\ Top.into = NoParam
    /\ \/ Top.fn = "next" /\ amp[Top.i].output_buffer # <<>>
       \/ Top.fn \in {"run_to_next_output", "run_to_termination"}
            /\ ~Ticks(Top.fn, amp[Top.i])

\* It was called by the driver and returns to it.
ReturnToDriver ==
    /\ Finished
    /\ Len(stack) = 1
    /\ stack' = <<>>
    /\ amp' = [amp EXCEPT ![Top.i] = AfterReturn(Top.fn, amp[Top.i])]
    /\ driver' = DriverReturn(topology, driver, Returned(Top.fn, amp[Top.i]))
    /\ UNCHANGED <<Fixed, fixed, pipe, pipe_borrow, produced, consumed, halted, prev>>

\* It was called by the Input instruction of the machine downstream, which now
\* finishes its tick with the value returned (or faults on None).
Deliver ==
    /\ Finished
    /\ Len(stack) > 1
    /\ LET ret == Returned(Top.fn, amp[Top.i])
           amp0 == [amp EXCEPT ![Top.i] = AfterReturn(Top.fn, amp[Top.i])]
           f == Below
       IN  Complete(Pop(stack), amp0, f, f.before,
                    execute(gen, amp[f.i], Instruction("Input", <<f.into>>), ret.opt,
                            overflow_checks),
                    ret.opt, FALSE)
    /\ UNCHANGED <<Fixed, pipe, pipe_borrow>>

\* The first machine of the feedback loop, its literals used up, reads the shared
\* queue: pipe.borrow_mut() (which panics if the queue is borrowed) ...
PipeBorrow ==
    /\ stack # <<>>
    /\ Top.into = NoParam
    /\ Ticks(Top.fn, amp[Top.i])
    /\ LET i == Top.i
           d == read_instruction(gen, amp[i])
       IN  /\ NeedsUpstream(i, d)
           /\ Upstream(topology, i).kind = "pipe"
           /\ IF pipe_borrow # {}
              THEN /\ stack' = <<>>
                   /\ driver' = DriverPanic(driver)
                   /\ UNCHANGED <<amp, pipe_borrow>>
              ELSE /\ amp' = [amp EXCEPT ![i] = d.m]
                   /\ stack' = [stack EXCEPT ![Len(stack)].into = d.instruction.p1,
                                             ![Len(stack)].before = amp[i]]
                   /\ pipe_borrow' = pipe_borrow \cup {"pop"}
                   /\ driver' = driver
    /\ UNCHANGED <<Fixed, fixed, pipe, produced, consumed, halted, prev>>

\* A closure that hands out 0 when the queue is empty (unwrap_or(0)).
PipePopInvents ==
    /\ stack # <<>>
    /\ Top.into # NoParam
    /\ "pop" \in pipe_borrow
    /\ pipe_borrow' = pipe_borrow \ {"pop"}
    /\ LET value == IF pipe = <<>> THEN 0 ELSE Head(pipe)
       IN  /\ pipe' = IF pipe = <<>> THEN pipe ELSE Tail(pipe)
           /\ Complete(stack, amp, Top, Top.before,
                       execute(gen, amp[Top.i], Instruction("Input", <<Top.into>>),
                               Some(value), overflow_checks),
                       Some(value), FALSE)
    /\ UNCHANGED Fixed

\* ... then pop_front().unwrap(), which panics on an empty queue, and the Input
\* instruction finishes with the value.
PipePop ==
    /\ stack # <<>>
    /\ Top.into # NoParam
    /\ "pop" \in pipe_borrow
    /\ pipe_borrow' = Released(pipe_borrow, "pop")
    /\ IF pipe = <<>>
       THEN /\ stack' = <<>>
            /\ driver' = DriverPanic(driver)
            /\ UNCHANGED <<amp, fixed, pipe, produced, consumed, halted, prev>>
       ELSE /\ pipe' = Tail(pipe)
            /\ Complete(stack, amp, Top, Top.before,
                        execute(gen, amp[Top.i], Instruction("Input", <<Top.into>>),
                                Some(Head(pipe)), overflow_checks),
                        Some(Head(pipe)), FALSE)
    /\ UNCHANGED Fixed

\* The map closure of run_amps_part2 on a value of the last machine:
\* pipe.borrow_mut() ...
MapBorrow ==
    /\ driver.pc = "map"
    /\ IF pipe_borrow # {}
       THEN driver' = DriverPanic(driver) /\ UNCHANGED pipe_borrow
       ELSE /\ driver' = [driver EXCEPT !.pc = "push"]
            /\ pipe_borrow' = pipe_borrow \cup {"push"}
    /\ UNCHANGED <<Fixed, amp, fixed, pipe, stack, produced, consumed, halted, prev>>

\* A closure after which last() keeps the first value it has seen.
MapPushKeepsFirst ==
    /\ driver.pc = "push"
    /\ pipe' = Append(pipe, driver.value)
    /\ pipe_borrow' = pipe_borrow \ {"push"}
    /\ driver' = [driver EXCEPT !.pc = "idle",
                                !.last = IF @.some THEN @ ELSE Some(driver.value)]
    /\ UNCHANGED <<Fixed, amp, fixed, stack, produced, consumed, halted, prev>>

\* A closure that pushes the value twice.
MapPushTwice ==
    /\ driver.pc = "push"
    /\ pipe' = pipe \o <<driver.value, driver.value>>
    /\ pipe_borrow' = pipe_borrow \ {"push"}
    /\ driver' = [driver EXCEPT !.pc = "idle", !.last = Some(driver.value)]
    /\ UNCHANGED <<Fixed, amp, fixed, stack, produced, consumed, halted, prev>>

\* ... push_back(value), and the value is what last() has seen last.
MapPush ==
    /\ driver.pc = "push"
    /\ pipe' = Append(pipe, driver.value)
    /\ pipe_borrow' = Released(pipe_borrow, "push")
    /\ driver' = [driver EXCEPT !.pc = "idle", !.last = Some(driver.value)]
    /\ UNCHANGED <<Fixed, amp, fixed, stack, produced, consumed, halted, prev>>

(***************************************************************************)
(* Amplifier pipelines: run_amps and run_amps_part2                        *)
(***************************************************************************)

\* The amplifier programs of test_amp and test_part2.
AmpTest1 == <<3,15,3,16,1002,16,10,16,1,16,15,15,4,15,99,0,0>>
AmpTest2 == <<3,23,3,24,1002,24,10,24,1002,23,-1,23,101,5,23,23,1,24,23,23,4,23,99,0,0>>
AmpTest3 == <<3,31,3,32,1002,32,10,32,1001,31,-2,31,1007,31,0,33,1002,33,7,33,1,33,31,31,
              1,32,31,31,4,31,99,0,0,0>>
FeedbackTest1 == <<3,26,1001,26,-4,26,3,27,1002,27,2,27,1,27,26,27,4,27,1001,28,-1,28,
                   1005,28,6,99,0,0,5>>
FeedbackTest2 == <<3,52,1001,52,-5,52,3,53,1,52,56,54,1007,54,5,55,1005,55,26,1001,54,
                   -5,54,1105,1,12,1,53,54,53,1008,54,0,55,1001,55,1,55,2,53,55,53,4,
                   53,1001,56,-1,56,1005,56,6,99,0,0,0,0,10>>

\* Further amplifier programs.
\*   RelayTwice: reads its phase, then twice reads a value x and outputs x + phase
\*               and x
\*   NoOutput:   reads its phase and halts
\*   Hungry:     reads three values, outputs the third and halts
RelayTwice == <<3,20,3,21,1,21,20,22,4,22,4,21,1001,23,-1,23,1005,23,2,99,0,0,0,2>>
NoOutput == <<3,3,99,0>>
Hungry == <<3,9,3,9,3,9,4,9,99,0>>

\* The orderings of a set of five phases (what all_permutation hands to f).
PhaseOrders(phases) ==
    {p \in [1..NumAmps -> phases] : \A a, b \in 1..NumAmps : a # b => p[a] # p[b]}

CallNext == Call("next", LastAmp)

InitChain ==
    \E tape \in {AmpTest1, AmpTest2, AmpTest3, RelayTwice, NoOutput, Hungry},
       p \in PhaseOrders(0..4),
       checks \in BOOLEAN :
        InitWith("d07", checks, "chain", tape, p, <<>>)

NextChain == CallNext \/ Tick \/ Pull \/ NextRuns \/ ReturnToDriver \/ Deliver

SpecChain == InitChain /\ [][NextChain]_vars

InitFeedback ==
    \E tape \in {FeedbackTest1, FeedbackTest2, RelayTwice, NoOutput, Hungry},
       p \in PhaseOrders(5..9),
       checks \in BOOLEAN :
        InitWith("d07", checks, "feedback", tape, p, <<>>)

NextFeedback ==
    \/ CallNext \/ Tick \/ Pull \/ NextRuns \/ ReturnToDriver \/ Deliver
    \/ PipeBorrow \/ PipePop \/ MapBorrow \/ MapPush

SpecFeedback == InitFeedback /\ [][NextFeedback]_vars

\* Both pipelines: the chain of run_amps and the feedback loop of run_amps_part2.
InitPipelines == InitChain \/ InitFeedback

SpecPipelines == InitPipelines /\ [][NextFeedback]_vars

(***************************************************************************)
(* Batch runs of Add/Multiply tapes: Memory::run (day 2), IntCode::run     *)
(* (day 5)                                                                 *)
(***************************************************************************)

\* The tapes of test_memory and test_basic.
ArithTest1 == <<1,9,10,3,2,3,11,0,99,30,40,50>>
ArithTest2 == <<1,0,0,0,99>>
ArithTest3 == <<2,3,0,3,99>>
ArithTest4 == <<2,4,4,5,99,0>>
ArithTest5 == <<1,1,1,4,99,5,6,0,99>>

\* The most Add/Multiply instructions an enumerated tape holds.
MaxInstr == 2

RECURSIVE Flatten(_)
Flatten(ss) == IF ss = <<>> THEN <<>> ELSE Head(ss) \o Flatten(Tail(ss))

\* The tapes of n position-mode Add/Multiply instructions, a Halt and one data
\* word: every operand is an address of the tape; the left operand is the first
\* word or the data word, the right operand the data word, the write operand the
\* first word, the word after the first instruction, the Halt or the data word.
ArithTapes(n) ==
    LET data == 4 * n + 1
        instructions == {<<op, a, data, c>> : op \in {1, 2}, a \in {0, data},
                                              c \in {0, 4, 4 * n, data}}
    IN  {Flatten(is) \o <<99, d>> : is \in [1..n -> instructions], d \in {3, 99}}

\* Three squarings of 99: the third product does not fit 32 bits.
Squaring == <<2,13,13,13, 2,13,13,13, 2,13,13,13, 99, 99>>

InitArith ==
    \E g \in {"d02", "d05"}, checks \in BOOLEAN,
       tape \in {ArithTest1, ArithTest2, ArithTest3, ArithTest4, ArithTest5, Squaring}
                    \cup UNION {ArithTapes(n) : n \in 1..MaxInstr} :
        InitWith(g, checks, "single", tape, <<>>, <<>>)

CallRun == Call("run", 0)

NextArith == CallRun \/ Tick

SpecArith == InitArith /\ [][NextArith]_vars

(***************************************************************************)
(* One machine driven through its entry points: IntCode of days 5, 7, 11   *)
(***************************************************************************)

\* Programs for one machine.  Words after a Halt:
HaltThenAdd == <<99,1101,1,1,0,99>>
HaltThenJunk == <<99,55>>
AddThenHalt == <<1101,1,1,0,99>>
OutputsThenHalt == <<104,5,104,6,99,104,7,99>>
EchoInput == <<3,0,4,0,99>>
\* Reads at and beyond the end of the memory, and before its start:
ReadBeyond == <<4,20,99>>
ReadAtLength == <<4,3,99>>
ReadRelativeBeyond == <<109,30,204,5,99>>
ReadBeforeStart == <<204,-5,4,-1,99>>
AddBeyond == <<1,50,51,0,99>>
\* Writes inside the memory, at and beyond its end, and before its start:
WriteRelativeInside == <<109,1,21101,3,4,2,99>>
WriteAtLength == <<1101,1,2,5,99>>
WriteBeyond == <<1101,3,4,12,4,10,4,12,99>>
WriteRelativeBeyond == <<109,5,21101,3,4,7,99>>
InputRelativeBeyond == <<203,9,99>>
WriteMinusOne == <<1101,1,2,-1,99>>
WriteMinusTwo == <<1101,1,2,-2,99>>
WriteRelativeMinusOne == <<109,-3,21101,1,2,2,99>>

SingleTapes ==
    {HaltThenAdd, HaltThenJunk, AddThenHalt, OutputsThenHalt, EchoInput,
     ReadBeyond, ReadAtLength, ReadRelativeBeyond, ReadBeforeStart, AddBeyond,
     WriteRelativeInside, WriteAtLength, WriteBeyond, WriteRelativeBeyond,
     InputRelativeBeyond, WriteMinusOne, WriteMinusTwo, WriteRelativeMinusOne}

\* Programs that fault.  Accesses outside the memory in Position mode:
JumpNotTakenBeyond == <<5,4,50,99,0>>
JumpTakenBeyond == <<6,4,50,99,0>>
InputBeyond == <<3,50,99>>
LessThanBeyond == <<7,0,50,0,99>>
EqualsWriteBeyond == <<8,0,0,50,99>>
\* A product that leaves 32 bits, written outside the memory (run on the 32-bit
\* generations only: the i64 words of the model stay inside 32 bits).
MulOverflowBeyond == <<2,5,5,50,99,65536>>

\* The address pointer leaves the memory: by a jump to a negative target, to a
\* target beyond the end, to the length; by running off the end; by an
\* instruction whose operands lie beyond the end.
JumpNegative == <<1105,1,-1,99>>
JumpBeyondEnd == <<1105,1,50,99>>
JumpToLength == <<1106,0,4,99>>
RunsOff == <<104,7>>
OperandsBeyondEnd == <<104,7,1,0>>
LastOperandBeyondEnd == <<104,7,1101,1,2>>

DecodeBeyondTapes ==
    {JumpNegative, JumpBeyondEnd, JumpToLength, RunsOff, OperandsBeyondEnd,
     LastOperandBeyondEnd}

\* Two adjustments of the relative base (to 5, then by the cell at 5 + 1) and an
\* output through it.
RelativeTwice == <<109,5,209,1,204,0,99>>
\* Relative reads and a Relative write inside the memory, the base being 3; a
\* jump whose operands are Relative.
RelativeInside == <<109,3,204,1,22201,-3,-2,4,99>>
RelativeJump == <<109,2,2205,-2,7,104,1,99,0,7>>

\* Programs that write into their own words: the operand of a later Output, the
\* opcode of the instruction that writes, the Halt (replaced by an Output), and
\* the target operand of the instruction that writes.
OverwritesOperand == <<1101,1,1,5,104,0,99>>
OverwritesItself == <<1001,0,1,0,99>>
OverwritesHalt == <<1101,100,4,4,99,0,99>>
OverwritesTarget == <<1,3,3,3,99,0,0>>
SelfModifying ==
    {ArithTest5, OverwritesOperand, OverwritesItself, OverwritesHalt, OverwritesTarget}

\* An output, a word that is no instruction, an Input and another output.
OutputBadOutput == <<104,7,55,3,0,104,8,99>>

FaultTapes ==
    {JumpNotTakenBeyond, JumpTakenBeyond, InputBeyond, LessThanBeyond,
     EqualsWriteBeyond, OutputBadOutput}

\* Opcode words: operation codes that exist and that do not, mode digits that
\* exist and that do not, an Immediate digit on the write parameter, negative words.
OpcodeWords ==
    {0, 10, 55, 98, 100, 199, 1099, 9, 109, 209, 203, 204, 299, 301, 1301, 30001,
     90002, 2101, 1201, 21101, 1000001, 1000301,
     10001, 11102, 103, 10103, 10007, 11108, 10004, 1105, 1002, 102, 1007, 108, 1006,
     -1, -3, -99, -101, -1101, -10001}

\* An opcode word, three parameters, the Halt.
DecodeTapes == {<<w, 0, 0, 0, 99>> : w \in OpcodeWords}

TapesOf(g) ==
    SingleTapes \cup FaultTapes \cup DecodeTapes \cup DecodeBeyondTapes \cup SelfModifying
        \cup (IF g = "d11" THEN {RelativeTwice, RelativeInside, RelativeJump} ELSE {MulOverflowBeyond})

\* The input lists handed to a single machine.
InputLists == {<<>>, <<7>>, <<-3, 8>>}

InitSingle ==
    \E g \in {"d05", "d07", "d11"}, checks \in BOOLEAN, inp \in InputLists :
        \E tape \in TapesOf(g) :
            InitWith(g, checks, "single", tape, <<>>, inp)

\* The driver calls one of the entry points of the machine's generation.
CallSingle == \E fn \in EntryPoints(gen) : Call(fn, 0)

NextSingle == CallSingle \/ Tick \/ NextRuns \/ ReturnToDriver

SpecSingle == InitSingle /\ [][NextSingle]_vars

\* The largest i32.
I32Max == 2147483647

\* The number of instructions before the first Halt at a multiple of four.
RECURSIVE HaltAt(_, _)
HaltAt(tape, k) ==
    IF 4 * k + 1 > Len(tape) \/ tape[4 * k + 1] = 99 THEN k ELSE HaltAt(tape, k + 1)

\* The arithmetic of a tape done by hand: instruction k = 0, 1, ... of the tape as
\* written, applied in order to the memory so far, in unbounded integers.  fits
\* tells whether every result stayed at or below I32Max.
RECURSIVE ByHand(_, _, _)
ByHand(tape, mem, k) ==
    IF k = HaltAt(tape, 0) THEN [fits |-> TRUE, mem |-> mem]
    ELSE LET x == mem[tape[4 * k + 2] + 1]
             y == mem[tape[4 * k + 3] + 1]
             c == tape[4 * k + 4]
             add == tape[4 * k + 1] = 1
             fits == IF add THEN x <= I32Max - y ELSE y = 0 \/ x <= I32Max \div y
         IN  IF ~fits THEN [fits |-> FALSE, mem |-> mem]
             ELSE ByHand(tape, [mem EXCEPT ![c + 1] = IF add THEN x + y ELSE x * y], k + 1)

\* No instruction writes to a word of a later instruction or to the Halt.
NoLaterWrite(tape) ==
    \A k \in 0..(HaltAt(tape, 0) - 1) :
        tape[4 * k + 4] \notin (4 * (k + 1))..(4 * HaltAt(tape, 0))

\* The first call of the batch run has come back (or has panicked).
FirstRunOver ==
    /\ driver.fn = "run"
    /\ driver.calls = 1
    /\ driver.pc \in {"idle", "done"}

\* C1 as claimed: every Add/Multiply tape with in-bounds operands and a Halt runs
\* to Ok and leaves the memory the arithmetic done by hand gives.
C1_AsClaimed ==
    FirstRunOver =>
        /\ driver.result.kind = "ok"
        /\ ByHand(program, program, 0).fits
        /\ amp[0].memory = ByHand(program, program, 0).mem

\* C1 (amended): for an Add/Multiply tape with in-bounds operands and a Halt in
\* which no instruction writes to a word of a later instruction or to the Halt, and
\* whose sums and products done by hand all fit an i32, run (of Memory and of the
\* day-5 IntCode) returns Ok and leaves the memory the arithmetic done by hand
\* gives; [1,9,10,3,2,3,11,0,99,30,40,50] ends as [3500,9,10,70,2,3,11,0,99,30,40,50]
\* and [1,0,0,0,99] as [2,0,0,0,99].
C1_RunIsArithmeticByHand ==
    FirstRunOver =>
        /\ NoLaterWrite(program) /\ ByHand(program, program, 0).fits =>
              /\ driver.result.kind = "ok"
              /\ amp[0].memory = ByHand(program, program, 0).mem
        /\ program = ArithTest1 =>
              amp[0].memory = <<3500,9,10,70,2,3,11,0,99,30,40,50>>
        /\ program = ArithTest2 => amp[0].memory = <<2,0,0,0,99>>

C1_Witness ==
    /\ FirstRunOver
    /\ gen = "d02"
    /\ HaltAt(program, 0) = MaxInstr
    /\ NoLaterWrite(program)
    /\ driver.result.kind = "ok"
    /\ amp[0].memory[1] = 3500

(***************************************************************************)
(* Properties of the pipelines                                             *)
(***************************************************************************)

Last(seq) == seq[Len(seq)]

IsPrefix(s, t) == Len(s) <= Len(t) /\ s = SubSeq(t, 1, Len(s))

\* The values machine i has obtained by Input after the literals of its sequence.
UpstreamValues(i) ==
    SubSeq(consumed[i], Len(Literals(topology, phase_settings, inputs, i)) + 1,
           Len(consumed[i]))

\* The pipeline function has returned (or has panicked).
PipelineOver == topology # "single" /\ driver.pc = "done"

\* C2: run_amps returns the first output of the fifth machine (an error when that
\* machine halts without one), every machine having obtained by then its phase
\* followed by outputs of the machine before it (the first machine its phase
\* followed by 0), and nothing else; the three test programs with the phase orders
\* of test_amp give 43210, 54321 and 65210.
C2_ChainReturnsFirstOutputOfFifth ==
    PipelineOver /\ topology = "chain" =>
        /\ driver.result.kind # "panic" =>
              /\ IF produced[LastAmp] # <<>>
                 THEN driver.result =
                          [kind |-> "ok", opt |-> Some(Head(produced[LastAmp]))]
                 ELSE driver.result.kind = "err" /\ amp[LastAmp].is_terminated
              /\ IsPrefix(consumed[0], <<phase_settings[1], 0>>)
              /\ \A i \in 1..LastAmp :
                    IsPrefix(consumed[i], <<phase_settings[i + 1]>> \o produced[i - 1])
        /\ program = AmpTest1 /\ phase_settings = <<4,3,2,1,0>> =>
              driver.result = [kind |-> "ok", opt |-> Some(43210)]
        /\ program = AmpTest2 /\ phase_settings = <<0,1,2,3,4>> =>
              driver.result = [kind |-> "ok", opt |-> Some(54321)]
        /\ program = AmpTest3 /\ phase_settings = <<1,0,4,3,2>> =>
              driver.result = [kind |-> "ok", opt |-> Some(65210)]

C2_Witness ==
    /\ PipelineOver
    /\ topology = "chain"
    /\ program = AmpTest1
    /\ phase_settings = <<4,3,2,1,0>>
    /\ driver.result.opt = Some(43210)
    /\ produced[LastAmp] = <<43210>>

\* C3: run_amps_part2 returns the last value the fifth machine outputs before it
\* halts, every output of the fifth machine having been appended to the queue that
\* supplies the first machine's third and later inputs; the feedback test program
\* gives 139629729 with phases [9,8,7,6,5] and nothing larger with any order of
\* 5..9, the second test program 18216 with [9,7,8,5,6] and nothing larger.  (It returns
\* an error when the fifth machine halts without an output.)
C3_FeedbackReturnsLastOutputOfFifth ==
    PipelineOver /\ topology = "feedback" =>
        /\ driver.result.kind # "panic" =>
              /\ IF produced[LastAmp] # <<>>
                 THEN driver.result =
                          [kind |-> "ok", opt |-> Some(Last(produced[LastAmp]))]
                 ELSE driver.result.kind = "err"
              /\ amp[LastAmp].is_terminated
              /\ produced[LastAmp] = SubSeq(consumed[0], 3, Len(consumed[0])) \o pipe
        /\ program = FeedbackTest1 =>
              /\ driver.result.kind = "ok"
              /\ driver.result.opt.v <= 139629729
              /\ phase_settings = <<9,8,7,6,5>> => driver.result.opt.v = 139629729
        /\ program = FeedbackTest2 =>
              /\ driver.result.kind = "ok"
              /\ driver.result.opt.v <= 18216
              /\ phase_settings = <<9,7,8,5,6>> => driver.result.opt.v = 18216

C3_Witness ==
    /\ PipelineOver
    /\ topology = "feedback"
    /\ program = FeedbackTest1
    /\ phase_settings = <<9,8,7,6,5>>
    /\ Len(produced[LastAmp]) > 1
    /\ driver.result.opt = Some(139629729)
    /\ Last(produced[LastAmp]) = 139629729
    /\ Head(produced[LastAmp]) # 139629729

\* C4: at every moment, for every machine i > 0, the first value machine i has
\* obtained by Input is its phase and the values it has obtained after it are, in
\* order, the first values machine i-1 has appended by Output: none skipped,
\* none twice, none out of order, none before it was produced.
C4_OutputOrderIsFifo ==
    topology # "single" =>
        \A i \in 1..LastAmp :
            /\ consumed[i] # <<>> => Head(consumed[i]) = phase_settings[i + 1]
            /\ IsPrefix(UpstreamValues(i), produced[i - 1])

C4_Witness ==
    /\ topology = "feedback"
    /\ Len(UpstreamValues(1)) = 3
    /\ UpstreamValues(1) = produced[0]
    /\ \A a, b \in 1..3 : a # b => produced[0][a] # produced[0][b]

\* Machine i is inside an Input instruction that waits for a value from upstream.
Requesting(i) == \E k \in 1..Len(stack) : stack[k].i = i /\ stack[k].into # NoParam

\* C5: a machine's output buffer holds a value only between the Output tick of its
\* run_to_next_output and the return of that value: the last tick any machine ran
\* is then that Output, the buffer holds that one value, and after the return the
\* buffer is empty again and the machine is not halted by it; and at every moment
\* machine i-1 has produced as many outputs as machine i has obtained from it,
\* or one more while machine i is requesting one.
C5_OneValuePerPull ==
    topology # "single" /\ driver.result.kind # "panic" =>
        /\ \A i \in Machines :
              amp[i].output_buffer # <<>> =>
                  /\ stack # <<>>
                  /\ Top = Frame("run_to_next_output", i)
                  /\ prev.i = i /\ prev.op = "Output" /\ prev.kind = "ok"
                  /\ ~amp[i].is_terminated
                  /\ amp[i].output_buffer = <<Last(produced[i])>>
        /\ \A i \in 1..LastAmp :
              \/ Len(produced[i - 1]) = Len(UpstreamValues(i))
              \/ /\ Len(produced[i - 1]) = Len(UpstreamValues(i)) + 1
                 /\ Requesting(i)

C5_Witness ==
    /\ topology = "feedback"
    /\ driver.pc = "map"
    /\ driver.value = Last(produced[LastAmp])
    /\ Len(produced[LastAmp]) = 2
    /\ prev.i = LastAmp /\ prev.op = "Output"
    /\ amp[LastAmp].output_buffer = <<>>
    /\ ~amp[LastAmp].is_terminated
    /\ \A i \in 1..LastAmp : Len(produced[i - 1]) = 2 /\ Len(UpstreamValues(i)) = 2

\* The first machine of the feedback loop is about to call pipe.borrow_mut().
AboutToBorrow ==
    /\ stack # <<>>
    /\ Top.into = NoParam
    /\ Ticks(Top.fn, amp[Top.i])
    /\ NeedsUpstream(Top.i, read_instruction(gen, amp[Top.i]))
    /\ Upstream(topology, Top.i).kind = "pipe"

\* C6: in the chain and in the feedback loop the calls in progress are calls of
\* machines 4, 3, ... in this order, each machine at most once; the shared queue
\* is borrowed by at most one closure, by the popping closure only inside the
\* Input instruction of the first machine and by the pushing closure only while
\* no machine is running; no borrow_mut() finds the queue borrowed.
C6_NoReentrancy ==
    topology # "single" =>
        /\ \A a, b \in 1..Len(stack) : a < b => stack[a].i > stack[b].i
        /\ Cardinality(pipe_borrow) <= 1
        /\ "pop" \in pipe_borrow =>
              stack # <<>> /\ Top.i = 0 /\ Top.into # NoParam /\ driver.pc = "calling"
        /\ "push" \in pipe_borrow => stack = <<>> /\ driver.pc = "push"
        /\ driver.pc = "map" => stack = <<>> /\ pipe_borrow = {}
        /\ AboutToBorrow => pipe_borrow = {}

C6_Witness ==
    /\ topology = "feedback"
    /\ Len(stack) = NumAmps
    /\ \A k \in 1..NumAmps : stack[k].i = NumAmps - k
    /\ pipe_borrow = {"pop"}
    /\ pipe # <<>>

\* Some machine ran (it has obtained its phase) and is not halted.
Suspended(i) == consumed[i] # <<>> /\ ~amp[i].is_terminated

\* C7 as claimed: when run_amps_part2 returns, each of the five machines is halted.
C7_AllHalted ==
    PipelineOver /\ topology = "feedback" =>
        \A i \in Machines : amp[i].is_terminated

\* C7 (amended): when run_amps_part2 returns its result, the fifth machine is
\* halted (by a Halt instruction it has executed).
C7_FifthHalted ==
    PipelineOver /\ topology = "feedback" /\ driver.result.kind # "panic" =>
        /\ amp[LastAmp].is_terminated
        /\ halted[LastAmp]

C7_Witness ==
    /\ PipelineOver
    /\ topology = "feedback"
    /\ driver.result.kind = "ok"
    /\ amp[LastAmp].is_terminated
    /\ \A i \in 0..(LastAmp - 1) : Suspended(i)

(***************************************************************************)
(* Properties of one machine                                               *)
(***************************************************************************)

\* A call of an entry point of the single machine has come back (or has panicked).
CallOver ==
    /\ topology = "single"
    /\ driver.calls >= 1
    /\ stack = <<>>
    /\ driver.pc \in {"idle", "done"}

\* The machine is as it was when the entry point was called (the batch run of
\* day 5 keeps its output in a local vector, not in the machine).
SameAsBefore ==
    /\ amp[0].memory = driver.before.memory
    /\ amp[0].address_ptr = driver.before.address_ptr
    /\ amp[0].relative_ptr = driver.before.relative_ptr
    /\ gen \in {"d07", "d11"} => amp[0].output_buffer = driver.before.output_buffer

\* C8 as claimed: an entry point called on a machine that has executed Halt returns
\* an error or leaves memory, instruction pointer, relative base and output buffer
\* as they were, and no tick after the Halt decodes and executes an instruction.
C8_HaltedIsNoOpOrError ==
    topology = "single" /\ gen \in {"d05", "d07", "d11"} =>
        /\ CallOver /\ driver.was_halted => driver.result.kind = "err" \/ SameAsBefore
        /\ prev.after_halt => prev.kind \notin {"ok", "halt"}

\* run_tick on a halted machine of day 7 has executed the Add that follows the Halt.
C8_Witness ==
    /\ CallOver
    /\ gen = "d07"
    /\ program = HaltThenAdd
    /\ driver.was_halted
    /\ driver.before.is_terminated
    /\ driver.fn = "run_tick"
    /\ driver.result.kind = "ok"
    /\ prev.after_halt /\ prev.op = "Add" /\ prev.kind = "ok"
    /\ driver.before.memory = program
    /\ amp[0].memory = <<2,1101,1,1,0,99>>

\* The last tick, decoded again from the machine it started from.
Decoded == read_instruction(gen, prev.m)

\* The last tick called write_memory: the arm of an instruction that writes got
\* as far as its write.
WriteAttempted ==
    /\ prev.kind # "none"
    /\ Decoded.ok
    /\ \/ prev.op = "Input" /\ prev.pulled
       \/ /\ prev.op \in {"Add", "Mul", "LessThan", "Equals"}
          /\ resolve_parameter_value(gen, Decoded.m, Decoded.instruction.p1).ok
          /\ resolve_parameter_value(gen, Decoded.m, Decoded.instruction.p2).ok

WriteParameter ==
    IF prev.op = "Input" THEN Decoded.instruction.p1 ELSE Decoded.instruction.p3

\* The address of a Position or Relative parameter (a negative one stands for the
\* usize the cast gives: 2^64 less its magnitude, beyond every memory).
AddressOf(m, parameter) ==
    IF parameter.t = "Relative" THEN m.relative_ptr + parameter.v ELSE parameter.v

WrittenValue ==
    LET left == resolve_parameter_value(gen, Decoded.m, Decoded.instruction.p1).v
        right == resolve_parameter_value(gen, Decoded.m, Decoded.instruction.p2).v
    IN  CASE prev.op = "Input" -> Last(consumed[prev.i])
          [] prev.op = "Add" -> left + right
          [] prev.op = "Mul" -> left * right
          [] prev.op = "LessThan" -> IF left < right THEN 1 ELSE 0
          [] OTHER -> IF left = right THEN 1 ELSE 0

\* The write of the last tick did what C9 says of a write to address a.
WriteAsSpecified(a) ==
    LET old == prev.m.memory
        new == amp[prev.i].memory
    IN  /\ prev.kind = "ok"
        /\ IF a >= 0 /\ a < Len(old)
           THEN /\ Len(new) = Len(old)
                /\ new = [old EXCEPT ![a + 1] = WrittenValue]
           ELSE /\ Len(new) = a + 1
                /\ \A k \in 1..Len(old) : new[k] = old[k]
                /\ \A k \in (Len(old) + 1)..a : new[k] = 0
                /\ new[a + 1] = WrittenValue

\* C9 as claimed: in the lenient generation every write to an address at or beyond
\* the length succeeds and leaves the memory of length address + 1, the gap
\* zero-filled, the cell written and the cells below the old length as they were;
\* a write below the length changes that cell only.
C9_WriteGrowsMemory ==
    gen = "d11" /\ WriteAttempted =>
        WriteAsSpecified(AddressOf(Decoded.m, WriteParameter))

\* The write parameter -1 (address usize::MAX) in a build without overflow checks:
\* the memory has been emptied and the tick has returned Err.
C9_Witness ==
    /\ gen = "d11"
    /\ ~overflow_checks
    /\ WriteAttempted
    /\ AddressOf(Decoded.m, WriteParameter) = -1
    /\ prev.m.memory = program
    /\ prev.kind = "err"
    /\ amp[0].memory = <<>>

\* How far beyond the memory (and before its start) the read parameters tried lie.
MaxBeyond == 3

\* Position and Relative parameters of machine m whose address is at or beyond the
\* length of its memory.
ParametersBeyond(m) ==
    LET addresses == (Len(m.memory)..(Len(m.memory) + MaxBeyond)) \cup ((-MaxBeyond)..(-1))
    IN  {Ref(a) : a \in addresses} \cup {Relative(a - m.relative_ptr) : a \in addresses}

\* The address of a Position or Relative parameter is at or beyond the length.
Beyond(m, parameter) ==
    /\ parameter.t \in {"Ref", "Relative"}
    /\ AddressOf(m, parameter) \notin 0..(Len(m.memory) - 1)

\* C10: in the lenient generation a Position or Relative read parameter whose
\* address is at or beyond the length of the memory resolves to Ok(0), whatever the
\* state of the machine; an Output of such a parameter appends 0 and leaves the
\* memory, and so its length, as it was.
C10_LenientReadBeyondIsZero ==
    gen = "d11" =>
        /\ \A parameter \in ParametersBeyond(amp[0]) :
              resolve_parameter_value(gen, amp[0], parameter) = [ok |-> TRUE, v |-> 0]
        /\ /\ prev.kind # "none"
           /\ Decoded.ok
           /\ prev.op = "Output"
           /\ Beyond(Decoded.m, Decoded.instruction.p1)
           => /\ prev.kind = "ok"
              /\ amp[0].memory = prev.m.memory
              /\ Last(produced[0]) = 0

C10_Witness ==
    /\ gen = "d11"
    /\ program = ReadRelativeBeyond
    /\ prev.op = "Output"
    /\ prev.kind = "ok"
    /\ Decoded.instruction.p1 = Relative(5)
    /\ Decoded.m.relative_ptr = 30
    /\ Beyond(Decoded.m, Decoded.instruction.p1)
    /\ produced[0] = <<0>>
    /\ amp[0].memory = program

(***************************************************************************)
(* Faults                                                                  *)
(***************************************************************************)

\* The last step of a machine was a tick whose instruction decoded.
Ticked == prev.kind # "none" /\ Decoded.ok

\* The memory of the machine of the last tick is what it was before that tick.
MemoryKept == amp[prev.i].memory = prev.m.memory

ComputeOps == {"Add", "Mul", "LessThan", "Equals"}

\* The jump of instruction i on machine m is taken.
Taken(m, i) ==
    LET val == resolve_parameter_value(gen, m, i.p1).v
    IN  IF i.op = "JumpIfTrue" THEN val # 0 ELSE val = 0

\* The read operands instruction i resolves on machine m: a jump resolves its
\* target only when it is taken.
ResolvedReads(m, i) ==
    CASE i.op \in ComputeOps -> {i.p1, i.p2}
      [] i.op \in {"Output", "RelativeBase"} -> {i.p1}
      [] i.op \in {"JumpIfTrue", "JumpIfFalse"} ->
            IF resolve_parameter_value(gen, m, i.p1).ok /\ Taken(m, i)
            THEN {i.p1, i.p2} ELSE {i.p1}
      [] OTHER -> {}

\* The sum or product of instruction i on machine m does not fit the word.
Overflows(m, i) ==
    LET left == resolve_parameter_value(gen, m, i.p1).v
        right == resolve_parameter_value(gen, m, i.p2).v
    IN  CASE i.op = "Add" -> Sum(gen, left, right, TRUE).overflow
          [] i.op = "Mul" -> Product(gen, left, right, TRUE).overflow
          [] OTHER -> FALSE

\* C11 as claimed: in the strict generations a tick of an instruction with a read
\* or write operand whose address is outside the memory returns a fault and
\* leaves the memory as it was.
C11_AddressOutsideFaults ==
    gen \in {"d05", "d07"} /\ Ticked =>
        LET i == Decoded.instruction
        IN  (\E p \in {i.p1, i.p2, i.p3} : Beyond(Decoded.m, p)) =>
                prev.kind = "err" /\ MemoryKept

\* C11 (amended): in the strict generations a tick that resolves a read operand
\* whose address is outside the memory returns a fault (a jump that is not taken
\* does not resolve its target and goes on); a tick that gets as far as a write to
\* an address outside the memory returns a fault, except that a sum or product
\* that overflows panics first in a build that checks overflow; in each of these
\* cases the memory is left as it was.
C11_ResolvedAddressOutsideFaults ==
    gen \in {"d05", "d07"} /\ Ticked =>
        LET i == Decoded.instruction
            m == Decoded.m
            read_beyond == \E p \in ResolvedReads(m, i) : Beyond(m, p)
        IN  /\ read_beyond => prev.kind = "err" /\ MemoryKept
            /\ ~read_beyond /\ i.op \in ComputeOps /\ Beyond(m, i.p3) =>
                  /\ MemoryKept
                  /\ prev.kind = IF overflow_checks /\ Overflows(m, i)
                                 THEN "panic" ELSE "err"
            /\ i.op = "Input" /\ Beyond(m, i.p1) => prev.kind = "err" /\ MemoryKept
            /\ i.op \in {"JumpIfTrue", "JumpIfFalse"} /\ ~read_beyond =>
                  prev.kind = "ok" /\ MemoryKept

C11_Witness ==
    /\ gen = "d07"
    /\ Ticked
    /\ program = WriteBeyond
    /\ prev.op = "Add"
    /\ Beyond(Decoded.m, Decoded.instruction.p3)
    /\ prev.kind = "err"
    /\ MemoryKept
    /\ amp[0].address_ptr = 4

\* The word the last tick decoded (None when the cursor was outside the memory).
Word == Get(prev.m.memory, prev.m.address_ptr)

\* The decimal digit of word w that gives the mode of the parameter at position n
\* (1, 2, 3), and its two low digits.
ModeDigit(w, n) == (w \div (IF n = 1 THEN 100 ELSE IF n = 2 THEN 1000 ELSE 10000)) % 10
LowDigits(w) == w % 100

\* The position of the write parameter of the operation with code c (0: none).
WritePosition(c) == IF c \in {1, 2, 7, 8} THEN 3 ELSE IF c = 3 THEN 1 ELSE 0

\* The last tick decoded a positive word of an operation with a write parameter
\* whose mode digit is 1.
WriteImmediate ==
    /\ prev.kind # "none"
    /\ Word.some
    /\ Word.v > 0
    /\ WritePosition(LowDigits(Word.v)) # 0
    /\ ModeDigit(Word.v, WritePosition(LowDigits(Word.v))) = 1

\* What a tick that executed nothing leaves alone: memory, relative base, output
\* buffer, termination flag, and the input sequence.
NothingExecuted ==
    /\ prev.after.memory = prev.m.memory
    /\ prev.after.relative_ptr = prev.m.relative_ptr
    /\ prev.after.output_buffer = prev.m.output_buffer
    /\ prev.after.is_terminated = prev.m.is_terminated
    /\ ~prev.pulled

\* C12: an instruction with a write parameter (Add, Mul, Input, LessThan, Equals)
\* whose write-parameter mode digit is 1 makes the tick return an Err from the
\* decoder: nothing is written, no input is taken, no output is appended, the
\* memory is as it was before the instruction.
C12_WriteImmediateFaults ==
    WriteImmediate =>
        /\ prev.kind = "err"
        /\ ~Decoded.ok
        /\ prev.why \in {"Invalid parameter type: parameter is for a write operation",
                          "Invalid OpCode",
                          "Invalid Address, address pointer out of bounds when reading parameter"}
        /\ NothingExecuted

C12_Witness ==
    /\ WriteImmediate
    /\ gen = "d11"
    /\ program = <<10007, 0, 0, 0, 99>>
    /\ prev.why = "Invalid parameter type: parameter is for a write operation"
    /\ prev.after.address_ptr = 4
    /\ NothingExecuted

\* The last tick decoded an Input instruction and its input sequence (the iterator
\* of the streaming generations, the list of the batch run) had no value left.
InputExhausted ==
    /\ prev.kind # "none"
    /\ Decoded.ok
    /\ Decoded.instruction.op = "Input"
    /\ ~prev.took.some

\* C13: in every generation an Input instruction executed on an exhausted input
\* sequence returns the Err "Ran out of input": no value is written, the memory
\* (and the rest of the machine but the address pointer) is as before the tick.
C13_RanOutOfInput ==
    InputExhausted =>
        /\ prev.kind = "err"
        /\ prev.why = "Ran out of input"
        /\ NothingExecuted
        /\ prev.call = driver.calls /\ prev.fn # "run_to_next_output" =>
              driver.pc = "idle" /\ driver.result = [kind |-> "err", opt |-> None]

C13_Witness ==
    /\ InputExhausted
    /\ gen = "d05"
    /\ program = EchoInput
    /\ inputs = <<>>
    /\ prev.why = "Ran out of input"
    /\ prev.after.memory = EchoInput
    /\ driver.result = [kind |-> "err", opt |-> None]

C13_WitnessStreaming ==
    /\ InputExhausted
    /\ gen = "d11"
    /\ program = InputRelativeBeyond
    /\ prev.fn = "run_to_termination"
    /\ prev.why = "Ran out of input"

\* The last tick returned Err inside run_to_termination or the batch run, and the
\* caller has not called the machine again since.
FaultInRun ==
    /\ prev.kind = "err"
    /\ prev.fn \in {"run", "run_to_termination"}
    /\ prev.call = driver.calls

\* C15: run_to_termination and the batch run return the Err of the first tick
\* that faults and tick no more: the call is over, its result is the Err, and
\* the machine and its input sequence are as that tick left them.
C15_FaultEndsTheRun ==
    FaultInRun =>
        /\ stack = <<>>
        /\ driver.pc = "idle"
        /\ driver.result = [kind |-> "err", opt |-> None]
        /\ amp[prev.i] = prev.after
        /\ IF prev.pulled
           THEN gen # "d05" => Len(consumed[prev.i]) + Len(fixed[prev.i]) = Len(inputs)
           ELSE IF prev.took.some
                THEN fixed[prev.i] # <<>> /\ Head(fixed[prev.i]) = prev.took.v
                ELSE fixed[prev.i] = <<>>

\* run_to_termination on [104,7,55,3,0,104,8,99] has output 7 and faulted on the
\* word 55: the Input and the Output behind it are not executed.
C15_Witness ==
    /\ FaultInRun
    /\ gen = "d07"
    /\ program = OutputBadOutput
    /\ inputs = <<7>>
    /\ prev.fn = "run_to_termination"
    /\ prev.why = "Invalid Opcode"
    /\ prev.m.address_ptr = 2
    /\ amp[0].output_buffer = <<7>>
    /\ fixed[0] = <<7>>
    /\ ~amp[0].is_terminated
    /\ driver.result = [kind |-> "err", opt |-> None]

\* The same in the batch run.
C15_WitnessBatch ==
    /\ FaultInRun
    /\ gen = "d05"
    /\ program = OutputBadOutput
    /\ prev.fn = "run"
    /\ prev.why = "Invalid Opcode"
    /\ amp[0].output_buffer = <<7>>
    /\ driver.result = [kind |-> "err", opt |-> None]

\* The mode digits of an i32 opcode word: at most eight above the two low digits.
ModeDigits == 8

RECURSIVE Pow10(_)
Pow10(k) == IF k = 0 THEN 1 ELSE 10 * Pow10(k - 1)

\* The operation codes and the mode digits of a generation, as the claim lists them.
Recognized(g) == IF g = "d11" THEN (1..9) \cup {99} ELSE (1..8) \cup {99}
ValidModes(g) == IF g = "d11" THEN {0, 1, 2} ELSE {0, 1}

\* The word w is no opcode word of generation g: its two low digits are no
\* operation code, or one of its mode digits is no mode, or it is negative.
NoOpcodeWord(g, w) ==
    \/ w < 0
    \/ LowDigits(w) \notin Recognized(g)
    \/ \E k \in 0..(ModeDigits - 1) : ((w \div 100) \div Pow10(k)) % 10 \notin ValidModes(g)

\* The last tick decoded a word that is no opcode word.
DecodedNoOpcode == prev.kind # "none" /\ Word.some /\ NoOpcodeWord(gen, Word.v)

\* C16: the tick on a word whose two low digits are no operation code of the
\* generation, or that has a mode digit that is no mode of it, or that is negative,
\* returns the decoder's Err and executes nothing: memory, relative base, input
\* sequence and output buffer are as before (the address pointer has passed the word).
C16_DecodeFaults ==
    DecodedNoOpcode =>
        /\ prev.kind = "err"
        /\ ~Decoded.ok
        /\ prev.why \in {"Invalid Opcode", "Invalid OpCode"}
        /\ NothingExecuted
        /\ prev.after = [prev.m EXCEPT !.address_ptr = @ + 1]

\* The word -101 (the digits of the Add with an Immediate first operand, negated).
C16_Witness ==
    /\ DecodedNoOpcode
    /\ gen = "d11"
    /\ program = <<-101, 0, 0, 0, 99>>
    /\ inputs = <<7>>
    /\ fixed[0] = <<7>>
    /\ prev.why = "Invalid Opcode"
    /\ prev.after.address_ptr = 1
    /\ prev.after.memory = program

\* A mode digit 3 above valid ones; the mode digit 2 before the relative mode.
C16_WitnessModeDigit ==
    /\ DecodedNoOpcode
    /\ \/ gen = "d11" /\ program = <<30001, 0, 0, 0, 99>>
       \/ gen = "d07" /\ program = <<1201, 0, 0, 0, 99>>
    /\ prev.why = "Invalid OpCode"

\* The number of operand words of the operation with code c in generation g.
Arity(g, c) ==
    CASE c \in {1, 2, 7, 8} -> 3
      [] c \in {5, 6} -> 2
      [] c \in {3, 4} -> 1
      [] c = 9 /\ g = "d11" -> 1
      [] OTHER -> 0

\* The last tick began with the address pointer outside the memory.
DecodedOutside ==
    /\ prev.kind # "none"
    /\ (prev.m.address_ptr < 0 \/ prev.m.address_ptr >= Len(prev.m.memory))

\* The last tick began on an opcode word inside the memory with one of its
\* operand words at or beyond the end.
OperandOutside ==
    /\ prev.kind # "none"
    /\ Word.some
    /\ ~NoOpcodeWord(gen, Word.v)
    /\ prev.m.address_ptr + Arity(gen, LowDigits(Word.v)) >= Len(prev.m.memory)

\* C17: in every generation, the lenient one included, a tick whose opcode word or
\* one of whose operand words lies outside the memory returns the Err of the
\* decoder (it does not read 0) and executes nothing.  The address pointer is a
\* usize; a jump to a negative target leaves the value the cast gives, which is
\* beyond every memory length (kept as the negative number here).
C17_DecodeOutsideFaults ==
    /\ DecodedOutside =>
            /\ prev.kind = "err"
            /\ prev.why =
                 "Invalid Address, address pointer out of bounds when reading instruction"
            /\ prev.after = prev.m
    /\ OperandOutside =>
            /\ prev.kind = "err"
            /\ ~Decoded.ok
            /\ NothingExecuted
    /\ \A i \in Machines :
            amp[i].address_ptr < 0 =>
                /\ prev.kind \in {"ok", "err"}
                /\ prev.op \in {"JumpIfTrue", "JumpIfFalse", "Invalid"}

\* The lenient machine has jumped to the target -1 and the next tick has faulted.
C17_Witness ==
    /\ DecodedOutside
    /\ gen = "d11"
    /\ program = JumpNegative
    /\ prev.m.address_ptr = -1
    /\ prev.kind = "err"
    /\ amp[0].memory = JumpNegative

\* The lenient machine on an Add whose last operand word is one past the end.
C17_WitnessOperand ==
    /\ OperandOutside
    /\ gen = "d11"
    /\ program = LastOperandBeyondEnd
    /\ prev.m.address_ptr = 2
    /\ prev.why = "Invalid Address, address pointer out of bounds when reading parameter"
    /\ prev.after.memory = LastOperandBeyondEnd

\* The cell at address a of memory, 0 outside it (the lenient read).
Cell(memory, a) == IF a >= 0 /\ a < Len(memory) THEN memory[a + 1] ELSE 0

\* The last tick executed the instruction with operation code 9 (lenient
\* generation): its opcode word and operand word were inside the memory.
AdjustExecuted ==
    /\ gen = "d11"
    /\ prev.kind # "none"
    /\ Word.some
    /\ ~NoOpcodeWord(gen, Word.v)
    /\ LowDigits(Word.v) = 9
    /\ prev.m.address_ptr + 1 < Len(prev.m.memory)

\* The value its parameter resolves to, from the mode digit and the operand word.
AdjustValue ==
    LET x == prev.m.memory[prev.m.address_ptr + 2]
        d == ModeDigit(Word.v, 1)
    IN  CASE d = 1 -> x
          [] d = 0 -> Cell(prev.m.memory, x)
          [] OTHER -> Cell(prev.m.memory, prev.m.relative_ptr + x)

\* C18: the relative base is 0 on construction; the instruction with operation
\* code 9 adds the value of its parameter to it; every other tick, faulting or
\* not, leaves it as it was, and so does everything between two ticks (calls of
\* the entry points, values taken from the output stream).
C18_RelativeBase ==
    /\ prev.kind = "none" => \A i \in Machines : amp[i].relative_ptr = 0
    /\ prev.kind # "none" =>
          /\ amp[prev.i].relative_ptr = prev.after.relative_ptr
          /\ prev.after.relative_ptr =
                IF AdjustExecuted THEN prev.m.relative_ptr + AdjustValue
                ELSE prev.m.relative_ptr
          /\ AdjustExecuted => prev.kind = "ok" /\ prev.op = "RelativeBase"
    /\ gen # "d11" => \A i \in Machines : amp[i].relative_ptr = 0

\* The second adjustment of [109,5,209,1,204,0,99]: from 5 by the cell at 5 + 1.
C18_Witness ==
    /\ AdjustExecuted
    /\ program = RelativeTwice
    /\ prev.m.relative_ptr = 5
    /\ AdjustValue = 99
    /\ amp[0].relative_ptr = 104

\* A value has been taken from the output stream after the adjustments.
C18_WitnessPull ==
    /\ gen = "d11"
    /\ program = RelativeTwice
    /\ driver.fn = "next"
    /\ driver.pc = "idle"
    /\ driver.result = [kind |-> "ok", opt |-> Some(0)]
    /\ amp[0].output_buffer = <<>>
    /\ amp[0].relative_ptr = 104

\* What C19 speaks of: memory, instruction pointer and output buffer of machine j.
Owned(m) == <<m.memory, m.address_ptr, m.output_buffer>>

\* Machine j has a tick in progress: its run_tick has decoded an Input and is
\* waiting for input_stream.next() to return.
TickInProgress(j) == \E k \in DOMAIN stack : stack[k].i = j /\ stack[k].into # NoParam

\* C19 (as claimed): while one machine is being ticked no other machine built from
\* the same tape changes in memory, instruction pointer or output buffer.
C19_TickChangesNoOtherMachine ==
    [][\A i, j \in Machines :
          TickInProgress(i) /\ j # i => Owned(amp'[j]) = Owned(amp[j])]_vars

\* The frame of the machine directly upstream of the Input that is being completed.
Delivering == Len(stack) > 1 /\ Finished

\* C19 (amended): no memory is shared.  The tape handed to init never changes, and
\* a step changes the memory, instruction pointer or output buffer of
\*   - the machine whose entry point is running (its own tick, or its own
\*     OutputStream::next taking the front of its buffer), and
\*   - when that next() returns into the Input of the machine downstream, that
\*     machine, which writes the value to its own memory, while the machine
\*     upstream loses only the front of its output buffer;
\* of no machine else.
C19_NoSharedMemory ==
    [][/\ program' = program
       /\ \A j \in Machines :
             Owned(amp'[j]) # Owned(amp[j]) =>
                 /\ stack # <<>>
                 /\ \/ j = Top.i
                    \/ Delivering /\ j = Below.i
                 /\ Delivering /\ j = Top.i =>
                      /\ amp'[j].memory = amp[j].memory
                      /\ amp'[j].address_ptr = amp[j].address_ptr
                      /\ amp'[j].output_buffer = Tail(amp[j].output_buffer)]_vars

\* The second amplifier has stored the value it pulled from the first: the first
\* has run and its buffer is empty again, the other three hold the tape with
\* nothing but their own phase stored (at address 15), the tape is as it was.
C19_Witness ==
    /\ topology = "chain"
    /\ program = AmpTest1
    /\ prev.i = 1
    /\ prev.op = "Input"
    /\ prev.kind = "ok"
    /\ consumed[1] = <<phase_settings[2], phase_settings[1]>>
    /\ amp[1].memory # program
    /\ amp[0].memory # amp[1].memory
    /\ amp[0].is_terminated = FALSE
    /\ amp[0].output_buffer = <<>>
    /\ \A j \in 2..LastAmp :
          amp[j].memory = [program EXCEPT ![16] = phase_settings[j + 1]]

\* The first run to the end of [3,0,4,0,99] on a new machine has returned: the
\* batch run of day 5, run_to_termination of the streaming generations.
EchoRunOver ==
    /\ program = EchoInput
    /\ driver.calls = 1
    /\ driver.pc = "idle"
    /\ driver.fn \in {"run", "run_to_termination"}

\* C20 (as claimed): the output sequence of [3,0,4,0,99] equals its input
\* sequence, element for element, whatever the input sequence.
C20_EchoesEveryInput ==
    EchoRunOver => driver.result.kind = "ok" /\ amp[0].output_buffer = inputs

\* C20 (amended): the program takes one value.  On an input sequence of one value
\* the output sequence equals it; on a longer one the output is its first value
\* and the rest is left in the input; on the empty one the run returns the Err
\* "Ran out of input" and the output is empty.
C20_EchoesFirstInput ==
    EchoRunOver =>
        IF inputs = <<>>
        THEN /\ driver.result.kind = "err"
             /\ prev.why = "Ran out of input"
             /\ amp[0].output_buffer = <<>>
             /\ amp[0].memory = EchoInput
        ELSE /\ driver.result.kind = "ok"
             /\ amp[0].output_buffer = <<Head(inputs)>>
             /\ Len(inputs) = 1 => amp[0].output_buffer = inputs
             /\ fixed[0] = Tail(inputs)
             /\ amp[0].memory = [EchoInput EXCEPT ![1] = Head(inputs)]

\* The batch run on the input [-3, 8] has returned the output [-3].
C20_Witness ==
    /\ EchoRunOver
    /\ gen = "d05"
    /\ inputs = <<-3, 8>>
    /\ driver.result.kind = "ok"
    /\ amp[0].output_buffer = <<-3>>
    /\ fixed[0] = <<8>>

\* The batch run on the input [7] has returned the output [7].
C20_WitnessOne ==
    /\ EchoRunOver
    /\ gen = "d05"
    /\ inputs = <<7>>
    /\ amp[0].output_buffer = inputs

(***************************************************************************)
(* The phase-permutation search: all_permutation over run_amps (part1)     *)
(* and run_amps_part2 (part2)                                              *)
(***************************************************************************)

I32Min == -I32Max - 1

\* Amplifier programs for the search.
\*   SumOrBad: reads its phase and a signal, adds them, outputs the sum; a sum of 0
\*             (phase 0 on the first amplifier) runs into the word 55
\*   SumOrBeyond: the same with a read from address 90 instead of the word 55
SumOrBad == <<3,17,3,18,1,17,18,18,1005,18,12,55,4,18,99,0,0,0,0>>
SumOrBeyond == <<3,19,3,20,1,19,20,20,1005,20,14,4,90,99,4,20,99,0,0,0,0>>

\* The phase orders f is called with (the leaves of the recursion), three of the
\* 120 orderings of the collection of part1 and of part2.
SearchOrders(topo) ==
    IF topo = "chain" THEN {<<0,1,2,3,4>>, <<1,0,2,3,4>>, <<4,3,2,1,0>>}
    ELSE {<<5,6,7,8,9>>, <<9,8,7,6,5>>, <<9,7,8,5,6>>}

SearchTapes(topo) ==
    IF topo = "chain" THEN {AmpTest1, SumOrBad, SumOrBeyond, NoOutput, Hungry}
    ELSE {FeedbackTest1, SumOrBad, NoOutput, Hungry}

\* part1 / part2: the first leaf of the recursion calls f on some order (the
\* iteration order of the HashSet is not specified), max is i32::min_value().
InitSearch ==
    \E topo \in {"chain", "feedback"}, checks \in BOOLEAN :
        \E tape \in SearchTapes(topo), first \in SearchOrders(topo) :
            /\ InitRun("d07", checks, topo, tape, first, <<>>)
            /\ search = [pc |-> "running", todo |-> SearchOrders(topo) \ {first},
                         max |-> I32Min]

\* f(input, builder).unwrap_or(<i32>::min_value()) of the leaf that has returned.
LeafValue == IF driver.result.kind = "ok" THEN driver.result.opt.v ELSE I32Min

\* if curr > max { max = curr; }
MaxWith(curr) == IF curr > search.max THEN curr ELSE search.max

\* f has returned (it did not panic).
LeafReturned ==
    /\ search.pc = "running"
    /\ driver.pc = "done"
    /\ driver.result # Panicked

\* The loop goes on to another order: f builds five new machines from the tape.
TryNext ==
    /\ LeafReturned
    /\ \E p \in search.todo :
        /\ search' = [search EXCEPT !.todo = @ \ {p}, !.max = MaxWith(LeafValue)]
        /\ phase_settings' = p
        /\ amp' = [i \in Machines |-> init(program)]
        /\ fixed' = [i \in Machines |-> Literals(topology, p, inputs, i)]
        /\ pipe' = <<>>
        /\ pipe_borrow' = {}
        /\ stack' = <<>>
        /\ driver' = [pc |-> "idle", calls |-> 0, fn |-> "none", value |-> 0,
                      last |-> None, result |-> NoResult, before |-> init(program),
                      was_halted |-> FALSE]
        /\ produced' = [i \in Machines |-> <<>>]
        /\ consumed' = [i \in Machines |-> <<>>]
        /\ halted' = [i \in Machines |-> FALSE]
        /\ prev' = [i |-> 0, m |-> init(program), fn |-> "none", kind |-> "none",
                    op |-> "none", after_halt |-> FALSE, pulled |-> FALSE, why |-> "",
                    after |-> init(program), took |-> None, call |-> 0]
    /\ UNCHANGED <<gen, overflow_checks, topology, program, inputs>>

\* Every order has been tried: the outermost all_permutation returns max.
SearchReturns ==
    /\ LeafReturned
    /\ search.todo = {}
    /\ search' = [search EXCEPT !.pc = "returned", !.max = MaxWith(LeafValue)]
    /\ UNCHANGED <<gen, overflow_checks, topology, program, phase_settings, inputs,
                   amp, fixed, pipe, pipe_borrow, stack, driver, produced, consumed,
                   halted, prev>>

NextSearch == NextFeedback \/ TryNext \/ SearchReturns

SpecSearch == InitSearch /\ [][NextSearch]_vars

\* A machine of the candidate being run has faulted: a tick of it returned Err.
CandidateFaulted == search.pc # "off" /\ prev.kind = "err"

C14_NoOutputIsInvalidCandidate ==
    search.pc = "returned" =>
        /\ program = NoOutput => search.max = I32Min
        /\ program = AmpTest1 => search.max = 43210
        /\ program \in {SumOrBad, SumOrBeyond} /\ topology = "chain" => FALSE

(***************************************************************************)
(* Programs of Input/Output pairs (test_inout)                             *)
(***************************************************************************)

\* The most (Input a; Output a) pairs of an enumerated program.
MaxPairs == 2

InOutTest == <<3,0,4,0,3,1,4,1,99>>

\* The addresses a pair at position j of k takes: the first word, the operand of
\* its own Input, the opcode and the operand of its Output, the Halt.
PairAddresses(j, k) == {0, 4 * j + 1, 4 * j + 2, 4 * j + 3, 4 * k}

\* The programs of k pairs (Input a; Output a) and the Halt.
PairTapes(k) ==
    {Flatten([j \in 1..k |-> <<3, as[j], 4, as[j]>>]) \o <<99>> :
        as \in {f \in [1..k -> 0..(4 * k)] :
                   \A j \in 1..k : f[j] \in PairAddresses(j - 1, k)}}

InOutValues == {-3, 4, 99}

\* A program of k pairs on a new machine, with exactly k input values.
InitInOut ==
    \E g \in {"d05", "d07", "d11"}, checks \in BOOLEAN, k \in 1..MaxPairs :
        \E tape \in PairTapes(k) \cup {InOutTest}, inp \in [1..k -> InOutValues] :
            /\ Len(tape) = 4 * k + 1
            /\ InitWith(g, checks, "single", tape, <<>>, inp)

\* The driver runs the machine to its end: the batch run of day 5,
\* run_to_termination of the streaming generations.
CallToEnd == Call(IF gen = "d05" THEN "run" ELSE "run_to_termination", 0)

NextInOut == CallToEnd \/ Tick \/ ReturnToDriver

SpecInOut == InitInOut /\ [][NextInOut]_vars

\* The number of pairs of the program, and the first run of it is over.
Pairs == (Len(program) - 1) \div 4
InOutOver == driver.calls = 1 /\ driver.pc = "idle"

\* C21 (as claimed): k pairs (Input a; Output a) and the Halt, run with k input
\* values, halt without fault with the output sequence equal to the input sequence.
C21_PairsEchoInputs ==
    InOutOver =>
        /\ driver.result.kind = "ok"
        /\ amp[0].output_buffer = inputs

\* No pair writes to a word that is decoded after the write: the address of pair j
\* (at words 4j .. 4j+3) is at most 4j + 1.
PairsKeepTheProgram == \A j \in 0..(Pairs - 1) : program[4 * j + 2] \in 0..(4 * j + 1)

\* C21 (amended): if every pair's address is that of a word decoded before the
\* pair's Output (0 <= a <= 4j + 1 for the pair at words 4j .. 4j+3), the run halts
\* without fault, the output sequence equals the input sequence in order, and the
\* Input instructions have taken the input values one each, in order, leaving none.
C21_SafePairsEchoInputs ==
    /\ driver.calls <= 1 => consumed[0] \o fixed[0] = inputs
    /\ InOutOver /\ PairsKeepTheProgram =>
          /\ driver.result.kind = "ok"
          /\ halted[0]
          /\ amp[0].output_buffer = inputs
          /\ consumed[0] = inputs
          /\ fixed[0] = <<>>

\* test_inout: [3,0,4,0,3,1,4,1,99] with two input values (here 99 and -3).
C21_Witness ==
    /\ InOutOver
    /\ gen = "d05"
    /\ program = InOutTest
    /\ inputs = <<99, -3>>
    /\ driver.result.kind = "ok"
    /\ amp[0].output_buffer = <<99, -3>>
    /\ amp[0].memory = <<99, -3, 4, 0, 3, 1, 4, 1, 99>>

\* [3,2,4,2,99] with the input value 99: the Input overwrites the Output.
C21_WitnessOverwritten ==
    /\ InOutOver
    /\ program = <<3, 2, 4, 2, 99>>
    /\ inputs = <<99>>
    /\ driver.result.kind = "ok"
    /\ amp[0].output_buffer = <<>>

(***************************************************************************)
(* Comparisons and branches (the day-5 tests)                              *)
(***************************************************************************)

\* test_is_equal_to_8_position .. test_is_less_than_8_immediate
EqualTo8Position == <<3,9,8,9,10,9,4,9,99,-1,8>>
LessThan8Position == <<3,9,7,9,10,9,4,9,99,-1,8>>
EqualTo8Immediate == <<3,3,1108,-1,8,3,4,3,99>>
LessThan8Immediate == <<3,3,1107,-1,8,3,4,3,99>>

\* test_day5_complex
Day5Complex ==
    <<3,21,1008,21,8,20,1005,20,22,107,8,21,20,1006,20,31,1106,0,36,98,0,0,1002,21,
      125,20,4,20,1105,1,46,104,999,1105,1,46,1101,1000,1,20,4,20,1105,1,46,98,99>>

\* Position-mode jumps on the input value: output 1 if it is nonzero, else 0.
JumpPosition == <<3,12,6,12,15,1,13,14,13,4,13,99,-1,0,1,9>>
JumpImmediate == <<3,3,1105,-1,9,1101,0,0,12,4,12,99,1>>

\* Jumps on the input value whose target operand addresses a cell outside the
\* memory: JumpIfTrue, then JumpIfFalse.
JumpTargetBeyond == <<3,1,5,1,50,104,1,99>>
JumpIfFalseTargetBeyond == <<3,1,6,1,50,104,1,99>>

BranchTapes ==
    {EqualTo8Position, LessThan8Position, EqualTo8Immediate, LessThan8Immediate,
     Day5Complex, JumpPosition, JumpImmediate, JumpTargetBeyond,
     JumpIfFalseTargetBeyond}

\* The input values: around 8, around 0, and the ends of the i32 range.
BranchInputs == {-I32Max - 1, -42, -3, -1, 0, 1, 7, 8, 9, 42, I32Max}

InitBranch ==
    \E g \in {"d05", "d07", "d11"}, checks \in BOOLEAN, tape \in BranchTapes,
       v \in BranchInputs :
        InitWith(g, checks, "single", tape, <<>>, <<v>>)

SpecBranch == InitBranch /\ [][NextInOut]_vars

\* Operand n (1, 2, 3) of the instruction the last tick decoded: its word, and the
\* value it resolves to, from the mode digit of the opcode word.
OperandWord(n) == prev.m.memory[prev.m.address_ptr + n + 1]
OperandValue(n) ==
    LET x == OperandWord(n)
        d == ModeDigit(Word.v, n)
    IN  CASE d = 1 -> x
          [] d = 0 -> Cell(prev.m.memory, x)
          [] OTHER -> Cell(prev.m.memory, prev.m.relative_ptr + x)

\* The last tick was a LessThan or Equals that returned Ok.
Compared ==
    /\ prev.kind = "ok"
    /\ Word.some
    /\ Word.v > 0
    /\ LowDigits(Word.v) \in {7, 8}

\* The first run of the program is over, and its input value.
BranchRunOver == driver.calls = 1 /\ driver.pc = "idle"
InputValue == inputs[1]

\* C22: Equals writes 1 if its two operands are equal, else 0; LessThan writes 1
\* if the first is less than the second, else 0 (the only cell that changes is
\* the one the third operand addresses).  The four test programs output [1] if
\* the input is 8 (is below 8), else [0], whatever the input value.
C22_Comparisons ==
    /\ Compared =>
          LET c == OperandWord(3)
              holds == IF LowDigits(Word.v) = 8 THEN OperandValue(1) = OperandValue(2)
                       ELSE OperandValue(1) < OperandValue(2)
          IN  /\ prev.op = IF LowDigits(Word.v) = 8 THEN "Equals" ELSE "LessThan"
              /\ c \in 0..(Len(prev.m.memory) - 1) =>
                    prev.after.memory =
                        [prev.m.memory EXCEPT ![c + 1] = IF holds THEN 1 ELSE 0]
    /\ BranchRunOver /\ program \in {EqualTo8Position, EqualTo8Immediate} =>
          /\ driver.result.kind = "ok"
          /\ amp[0].output_buffer = IF InputValue = 8 THEN <<1>> ELSE <<0>>
    /\ BranchRunOver /\ program \in {LessThan8Position, LessThan8Immediate} =>
          /\ driver.result.kind = "ok"
          /\ amp[0].output_buffer = IF InputValue < 8 THEN <<1>> ELSE <<0>>

\* The immediate-mode LessThan on the input -3 has written 1.
C22_Witness ==
    /\ Compared
    /\ gen = "d05"
    /\ program = LessThan8Immediate
    /\ inputs = <<-3>>
    /\ prev.op = "LessThan"
    /\ OperandValue(1) = -3
    /\ OperandValue(2) = 8
    /\ prev.after.memory = <<3,3,1107,1,8,3,4,3,99>>

\* The position-mode Equals on the input 8 has been run to the end.
C22_WitnessEquals ==
    /\ BranchRunOver
    /\ program = EqualTo8Position
    /\ inputs = <<8>>
    /\ amp[0].output_buffer = <<1>>

\* The last tick decoded a JumpIfTrue or JumpIfFalse whose condition could be
\* resolved (in the fixed-tape generations a Position operand must address a cell).
JumpDecoded ==
    /\ prev.kind # "none"
    /\ Decoded.ok
    /\ Word.v > 0
    /\ LowDigits(Word.v) \in {5, 6}
    /\ (gen # "d11" /\ ModeDigit(Word.v, 1) = 0) =>
           OperandWord(1) \in 0..(Len(prev.m.memory) - 1)

\* Whether it jumps: on a nonzero condition for code 5, on a zero one for code 6.
Jumps == IF LowDigits(Word.v) = 5 THEN OperandValue(1) # 0 ELSE OperandValue(1) = 0

\* Its target operand addresses no cell of the memory.
TargetBeyond ==
    ModeDigit(Word.v, 2) = 0 /\ OperandWord(2) \notin 0..(Len(prev.m.memory) - 1)

\* C23: JumpIfTrue sets the instruction pointer to its target exactly when its
\* condition is nonzero, JumpIfFalse exactly when it is zero; otherwise the
\* pointer is just past the two operands and the target is not resolved (a target
\* operand that addresses no cell is then no fault).  Nothing else changes.
\* test_day5_complex outputs [999] below 8, [1000] for 8, [1001] above 8.
C23_Jumps ==
    /\ JumpDecoded /\ ~Jumps =>
          /\ prev.kind = "ok"
          /\ prev.after = [prev.m EXCEPT !.address_ptr = prev.m.address_ptr + 3]
    /\ JumpDecoded /\ Jumps =>
          IF gen # "d11" /\ TargetBeyond
          THEN prev.kind = "err" /\ NothingExecuted
          ELSE /\ prev.kind = "ok"
               /\ prev.after = [prev.m EXCEPT !.address_ptr = OperandValue(2)]
    /\ BranchRunOver /\ program = Day5Complex =>
          /\ driver.result.kind = "ok"
          /\ amp[0].output_buffer = IF InputValue < 8 THEN <<999>>
                                    ELSE IF InputValue = 8 THEN <<1000>>
                                    ELSE <<1001>>

\* A JumpIfTrue on the condition 0 whose target operand addresses cell 50 of an
\* eight-word memory: the tick is Ok and goes on with the next instruction.
C23_Witness ==
    /\ JumpDecoded
    /\ ~Jumps
    /\ TargetBeyond
    /\ gen = "d05"
    /\ program = JumpTargetBeyond
    /\ inputs = <<0>>
    /\ prev.kind = "ok"
    /\ prev.after.address_ptr = 5

\* test_day5_complex on -42 has been run to the end.
C23_WitnessComplex ==
    /\ BranchRunOver
    /\ program = Day5Complex
    /\ inputs = <<-42>>
    /\ amp[0].output_buffer = <<999>>

\* The position-mode JumpIfFalse of JumpPosition has jumped to 9.
C23_WitnessJumps ==
    /\ JumpDecoded
    /\ Jumps
    /\ program = JumpPosition
    /\ prev.op = "JumpIfFalse"
    /\ prev.after.address_ptr = 9

\* Machines that differ from m in everything but memory and address pointer.
SameTapeAndPointer(m) ==
    {[m EXCEPT !.relative_ptr = @ + 7],
     [m EXCEPT !.output_buffer = Append(@, 5)],
     [m EXCEPT !.is_terminated = ~@],
     [m EXCEPT !.relative_ptr = -1, !.output_buffer = <<>>, !.is_terminated = TRUE]}

\* What a decode answers: Ok or Err, the instruction, the message, the cursor.
Answer(d) == <<d.ok, d.instruction, d.err, d.m.address_ptr>>

\* C24: read_instruction is a function of memory and address pointer.  On every
\* machine state that is reached: decoding changes nothing of the machine but the
\* address pointer; a machine with the same memory and pointer and another
\* relative base, output buffer and termination flag decodes to the same
\* instruction; and decoding again from the same position, nothing executed in
\* between, gives the same instruction and cursor.  (The decoder has no access to
\* the input sequence.)
C24_DecodeIsAFunction ==
    \A i \in Machines :
        LET m == amp[i]
            d == read_instruction(gen, m)
            again == read_instruction(gen, [d.m EXCEPT !.address_ptr = m.address_ptr])
        IN  /\ d.m = [m EXCEPT !.address_ptr = d.m.address_ptr]
            /\ d.m.address_ptr >= m.address_ptr
            /\ Answer(again) = Answer(d)
            /\ again.m = d.m
            /\ \A other \in SameTapeAndPointer(m) :
                  /\ Answer(read_instruction(gen, other)) = Answer(d)
                  /\ read_instruction(gen, other).m =
                        [other EXCEPT !.address_ptr = d.m.address_ptr]

\* The lenient machine with relative base 5 stands before [209, 1]: the decode is
\* RelativeBase with the parameter Relative(1), the base plays no part in it.
C24_Witness ==
    /\ gen = "d11"
    /\ program = RelativeTwice
    /\ amp[0].relative_ptr = 5
    /\ amp[0].address_ptr = 2
    /\ read_instruction(gen, amp[0]).ok
    /\ read_instruction(gen, amp[0]).instruction =
          Instruction("RelativeBase", <<Relative(1)>>)
    /\ read_instruction(gen, amp[0]).m.address_ptr = 4

\* The last tick decoded an instruction (read_instruction returned Ok).
DecodedOk == prev.kind # "none" /\ Decoded.ok

\* Operand n of the decoded instruction.
Operand(n) ==
    LET i == Decoded.instruction
    IN  IF n = 1 THEN i.p1 ELSE IF n = 2 THEN i.p2 ELSE i.p3

\* The address a Position or Relative operand word x with mode digit d stands for.
TargetOf(d, x) == IF d = 2 THEN prev.m.relative_ptr + x ELSE x

\* C25: a decode at p that succeeds leaves the cursor behind the opcode word and
\* the operand words: p+4 for Add, Mul, LessThan, Equals, p+3 for the jumps, p+2
\* for Input, Output, RelativeBase, p+1 for the Halt.  Operand n is the word at
\* p+n; an instruction has no operand beyond its last word.  The write operand is
\* the last one: an Ok tick of Add, Mul, LessThan, Equals or Input leaves every
\* cell as it was but the one its last operand addresses.  A tick that does not
\* jump leaves the address pointer at the cursor.
C25_DecodeAdvances ==
    DecodedOk =>
        LET p == prev.m.address_ptr
            c == LowDigits(Word.v)
            n == CASE c \in {1, 2, 7, 8} -> 3
                   [] c \in {5, 6} -> 2
                   [] c \in {3, 4, 9} -> 1
                   [] OTHER -> 0
            old == prev.m.memory
            new == prev.after.memory
        IN  /\ Decoded.m.address_ptr = p + 1 + n
            /\ \A k \in 1..3 :
                  IF k <= n THEN Operand(k).t # "None" /\ Operand(k).v = old[p + k + 1]
                  ELSE Operand(k) = NoParam
            /\ c = 99 <=> Decoded.instruction.op = "Terminate"
            /\ prev.kind \in {"ok", "halt"} /\ c \notin {5, 6} =>
                  prev.after.address_ptr = p + 1 + n
            /\ prev.kind = "ok" /\ c \in {1, 2, 3, 7, 8} =>
                  LET target == TargetOf(ModeDigit(Word.v, n), old[p + n + 1])
                  IN  /\ Len(new) >= Len(old)
                      /\ \A a \in 0..(Len(old) - 1) : a # target => new[a + 1] = old[a + 1]
                      /\ Operand(n).t \in {"Ref", "Relative"}

\* The Add [1101,3,4,12] of the lenient machine: cursor from 0 to 4, operands 3, 4
\* and 12 in that order, and the cell written is the one at 12.
C25_Witness ==
    /\ DecodedOk
    /\ gen = "d11"
    /\ program = WriteBeyond
    /\ prev.m.address_ptr = 0
    /\ Decoded.m.address_ptr = 4
    /\ Decoded.instruction = Instruction("Add", <<Value(3), Value(4), Ref(12)>>)
    /\ prev.kind = "ok"
    /\ prev.after.memory[13] = 7

\* A jump (cursor p+3) and the Halt (cursor p+1).
C25_WitnessJump ==
    /\ DecodedOk
    /\ program = JumpBeyondEnd
    /\ prev.m.address_ptr = 0
    /\ Decoded.m.address_ptr = 3
    /\ Decoded.instruction = Instruction("JumpIfTrue", <<Value(1), Value(50)>>)

\* The name of the mode a decimal digit stands for.
ModeName(d) == IF d = 0 THEN "Ref" ELSE IF d = 1 THEN "Value" ELSE "Relative"

\* The number of decimal digits of w / 100 (w positive).
RECURSIVE DigitsAbove(_)
DigitsAbove(s) == IF s > 0 THEN 1 + DigitsAbove(s \div 10) ELSE 0

\* C26: in a decode that succeeds, operand k (1, 2, 3) has the mode named by the
\* k-th decimal digit from the right of word / 100, and an operand for which
\* word / 100 has no digit is in Position mode; the operation is the one the two
\* low digits name.
C26_ModesLittleEndian ==
    DecodedOk =>
        LET w == Word.v
            n == Arity(gen, LowDigits(w))
        IN  /\ w > 0
            /\ Decoded.instruction.op = OpName(gen, LowDigits(w))
            /\ \A k \in 1..n :
                  /\ Operand(k).t = ModeName(((w \div 100) \div Pow10(k - 1)) % 10)
                  /\ k > DigitsAbove(w \div 100) => Operand(k).t = "Ref"

\* The word 1002: Mul with modes Position, Immediate, Position.
C26_Witness ==
    /\ DecodedOk
    /\ Word.v = 1002
    /\ gen = "d07"
    /\ Decoded.instruction = Instruction("Mul", <<Ref(0), Value(0), Ref(0)>>)

\* The words 102 and 1006: the first operand Immediate, the second one Position;
\* the first operand Position, the second one Immediate.
C26_WitnessAsymmetric ==
    /\ DecodedOk
    /\ \/ Word.v = 102 /\ Operand(1).t = "Value" /\ Operand(2).t = "Ref" /\ Operand(3).t = "Ref"
       \/ Word.v = 1006 /\ Operand(1).t = "Ref" /\ Operand(2).t = "Value"

\* The value the write of the last tick stores, from the operand values.
StoredValue ==
    LET c == LowDigits(Word.v)
    IN  CASE c = 1 -> OperandValue(1) + OperandValue(2)
          [] c = 2 -> OperandValue(1) * OperandValue(2)
          [] c = 7 -> (IF OperandValue(1) < OperandValue(2) THEN 1 ELSE 0)
          [] c = 8 -> (IF OperandValue(1) = OperandValue(2) THEN 1 ELSE 0)
          [] OTHER -> prev.took.v

\* The last tick of the lenient machine decoded an instruction with a Relative
\* operand at position n.
RelativeOperand(n) ==
    /\ gen = "d11"
    /\ DecodedOk
    /\ n <= Arity(gen, LowDigits(Word.v))
    /\ ModeDigit(Word.v, n) = 2

\* C27: an operand in Relative mode stands for the address relative base +
\* offset.  Read: Output appends the word at that address, RelativeBase adds it to
\* the base, a jump tests it and goes to it, and the arithmetic and comparison
\* instructions compute with it (OperandValue reads the cell at base + offset).
\* Written: a write parameter in Relative mode is accepted, and the cell that
\* receives the value is the one at base + offset; a write parameter in Position
\* mode stores into the cell its operand word names.  (Addresses from 0 on; an
\* address beyond the length is read as 0 and grows the memory when written.)
C27_RelativeAddresses ==
    gen = "d11" /\ DecodedOk =>
        LET c == LowDigits(Word.v)
            n == WritePosition(c)
            p == prev.m.address_ptr
            old == prev.m.memory
            new == prev.after.memory
            target == TargetOf(ModeDigit(Word.v, n), OperandWord(n))
        IN  /\ c = 4 =>
                  /\ prev.kind = "ok"
                  /\ prev.after.output_buffer = Append(prev.m.output_buffer, OperandValue(1))
            /\ c = 9 =>
                  /\ prev.kind = "ok"
                  /\ prev.after.relative_ptr = prev.m.relative_ptr + OperandValue(1)
            /\ c \in {5, 6} =>
                  /\ prev.kind = "ok"
                  /\ prev.after.address_ptr =
                        IF (c = 5) = (OperandValue(1) # 0) THEN OperandValue(2) ELSE p + 3
            /\ n > 0 /\ (c = 3 => prev.pulled) /\ target >= 0 =>
                  /\ prev.kind = "ok"
                  /\ Operand(n) = IF ModeDigit(Word.v, n) = 2 THEN Relative(OperandWord(n))
                                  ELSE Ref(OperandWord(n))
                  /\ new = [Resize(old, IF target < Len(old) THEN Len(old) ELSE target + 1)
                               EXCEPT ![target + 1] = StoredValue]

\* RelativeInside with the base 3: the Output of the operand 1 in Relative mode
\* has appended the word at address 4.
C27_Witness ==
    /\ RelativeOperand(1)
    /\ program = RelativeInside
    /\ prev.m.relative_ptr = 3
    /\ Word.v = 204
    /\ prev.after.output_buffer = <<22201>>

\* The Add with three Relative operands: the words at 0 and 1 are added and the
\* sum is stored at address 3 + 4.
C27_WitnessWrite ==
    /\ RelativeOperand(3)
    /\ program = RelativeInside
    /\ prev.m.relative_ptr = 3
    /\ Word.v = 22201
    /\ prev.kind = "ok"
    /\ prev.after.memory = [program EXCEPT ![8] = 112]

\* A Relative write beyond the length, and a Position write.
C27_WitnessGrows ==
    /\ RelativeOperand(3)
    /\ program = WriteRelativeBeyond
    /\ prev.kind = "ok"
    /\ Len(prev.after.memory) = 13
    /\ prev.after.memory[13] = 7

\* The jump whose condition and target are Relative operands has been taken.
C27_WitnessJump ==
    /\ RelativeOperand(2)
    /\ program = RelativeJump
    /\ prev.after.address_ptr = 7

\* What the last tick did, computed from the memory it began with: the operation
\* is the one the word under the address pointer names; an Ok tick of a writing
\* instruction stores the value computed from the operand words as they were when
\* the tick began, into the cell the write operand named then, and ends behind
\* the operand words read then; an Output appends the value of its operand.
ExecutedAsDecoded ==
    prev.kind # "none" =>
        LET c == LowDigits(Word.v)
            n == WritePosition(c)
            old == prev.m.memory
            new == prev.after.memory
            target == TargetOf(ModeDigit(Word.v, n), OperandWord(n))
        IN  /\ prev.op = IF Decoded.ok THEN OpName(gen, c) ELSE "Invalid"
            /\ Decoded.ok /\ prev.kind = "ok" =>
                  /\ n > 0 /\ ~Overflows(Decoded.m, Decoded.instruction) =>
                        /\ new = [Resize(old, IF target < Len(old) THEN Len(old) ELSE target + 1)
                                     EXCEPT ![target + 1] = StoredValue]
                        /\ prev.after.address_ptr = prev.m.address_ptr + 1 + Arity(gen, c)
                  /\ n = 0 => new = old
                  /\ c = 4 =>
                        prev.after.output_buffer = Append(prev.m.output_buffer, OperandValue(1))

\* C28: every tick decodes the words that are in the memory when it begins: what
\* it executes is what those words say (operation, operands, target), also where
\* an earlier instruction has overwritten them, and the memory and the address
\* pointer it leaves are those the next tick begins with.  The operands are those
\* read before the instruction's own write.
C28_DecodedFromCurrentMemory ==
    /\ ExecutedAsDecoded
    /\ prev.kind # "none" =>
          /\ amp[prev.i].memory = prev.after.memory
          /\ amp[prev.i].address_ptr = prev.after.address_ptr
          /\ amp[prev.i].relative_ptr = prev.after.relative_ptr
    /\ prev.kind = "none" => amp[0].memory = program /\ amp[0].address_ptr = 0

\* [1,1,1,4,99,5,6,0,99]: the Halt at address 4 has become 2 and has been
\* executed as a Mul; the memory is [30,1,1,4,2,5,6,0,99] at the halt.
C28_Witness ==
    /\ program = ArithTest5
    /\ gen = "d07"
    /\ prev.kind = "halt"
    /\ prev.m.address_ptr = 8
    /\ amp[0].memory = <<30,1,1,4,2,5,6,0,99>>
    /\ driver.calls = 1

\* The Mul at address 4 of that run: decoded from the word the Add stored.
C28_WitnessOverwritten ==
    /\ program = ArithTest5
    /\ prev.kind = "ok"
    /\ prev.m.address_ptr = 4
    /\ program[5] = 99
    /\ prev.m.memory[5] = 2
    /\ prev.op = "Mul"

\* The operand of the Output overwritten (output 2), the Halt overwritten by an
\* Output, and an instruction that overwrites its own target operand.
C28_WitnessOperand ==
    /\ program = OverwritesOperand
    /\ prev.op = "Output"
    /\ prev.after.output_buffer = <<2>>

C28_WitnessOwnOperand ==
    /\ program = OverwritesTarget
    /\ prev.op = "Add"
    /\ prev.kind = "ok"
    /\ prev.after.memory = <<1,3,3,6,99,0,0>>

(***************************************************************************)
(* The output sequence of one machine: OutputStream::next and              *)
(* run_to_next_output, called again and again                              *)
(***************************************************************************)

\* The calls a consumer of the output sequence makes.
MaxNexts == 4

ThreeOutputs == <<104,1,104,2,104,3,99>>
OutputAfterHalt == <<104,1,99,104,2,99>>
StreamTapes ==
    {OutputsThenHalt, ThreeOutputs, OutputAfterHalt, EchoInput, InOutTest, HaltThenAdd,
     AddThenHalt, OutputBadOutput, Day5Complex, RelativeInside}

InitStream ==
    \E g \in {"d07", "d11"}, checks \in BOOLEAN, inp \in InputLists, tape \in StreamTapes :
        InitWith(g, checks, "single", tape, <<>>, inp)

StreamFns == {"next", "run_to_next_output"}

\* The consumer asks for the next value; before its first request it may have run
\* the machine to termination, so that the outputs are in the buffer.
CallStream ==
    \E fn \in StreamFns \cup {"run_to_termination"} :
        /\ driver.pc = "idle"
        /\ stack = <<>>
        /\ driver.calls < MaxNexts
        /\ fn = "run_to_termination" => driver.calls = 0
        /\ stack' = <<Frame(fn, 0)>>
        /\ driver' = [driver EXCEPT !.pc = "calling", !.calls = @ + 1, !.fn = fn,
                                    !.before = amp[0], !.was_halted = halted[0]]
        /\ UNCHANGED <<Fixed, amp, fixed, pipe, pipe_borrow, produced, consumed, halted,
                       prev>>

NextStream == CallStream \/ Tick \/ NextRuns \/ ReturnToDriver

SpecStream == InitStream /\ [][NextStream]_vars

\* A request for the next value has returned to the consumer.
StreamReturned ==
    /\ stack = <<>>
    /\ driver.pc = "idle"
    /\ driver.fn \in StreamFns

\* The machine has ticked during the last request.
TickedInCall == prev.kind # "none" /\ prev.call = driver.calls

\* The output buffer when the ticking of the last request was over, before the
\* front value was removed.
Front ==
    IF TickedInCall THEN prev.after.output_buffer ELSE driver.before.output_buffer

\* The request in progress follows one that returned None (the first request may
\* have been run_to_termination, whose Ok(()) is not a value of the sequence).
AfterNone ==
    /\ stack # <<>>
    /\ driver.pc = "calling"
    /\ driver.calls >= 3
    /\ driver.result = [kind |-> "ok", opt |-> None]

\* C29: a request ticks the machine only while the buffer is empty and the machine
\* has not halted, so that it ends with a value in the buffer or the machine
\* halted; it returns Some(front of the buffer) and removes that value, and it
\* returns None exactly if the machine has halted and the buffer is empty.  A
\* request on a halted machine with an empty buffer, and so every request after
\* one that returned None, returns None and does not tick.
C29_NextOutput ==
    /\ StreamReturned =>
          /\ driver.result.kind = "ok"
          /\ Front # <<>> \/ amp[0].is_terminated
          /\ TickedInCall =>
                /\ driver.before.output_buffer = <<>>
                /\ ~driver.before.is_terminated
                /\ Len(Front) <= 1
          /\ Front # <<>> =>
                /\ driver.result.opt = Some(Head(Front))
                /\ amp[0].output_buffer = Tail(Front)
          /\ driver.result.opt = None <=> (amp[0].is_terminated /\ Front = <<>>)
          /\ driver.before.is_terminated /\ driver.before.output_buffer = <<>> =>
                /\ driver.result.opt = None
                /\ ~TickedInCall
                /\ amp[0] = driver.before
    /\ AfterNone =>
          /\ amp[0] = driver.before
          /\ amp[0].is_terminated
          /\ amp[0].output_buffer = <<>>
          /\ ~TickedInCall
          /\ ~Ticks(Top.fn, amp[0])

\* The third request to [104,5,104,6,99,...]: 5 and 6 have been handed out, the
\* machine has ticked to its Halt and the request has returned None.
C29_Witness ==
    /\ StreamReturned
    /\ program = OutputsThenHalt
    /\ driver.calls = 3
    /\ TickedInCall
    /\ prev.kind = "halt"
    /\ driver.result.opt = None
    /\ produced[0] = <<5, 6>>

\* The request after it: None again, no tick.
C29_WitnessExhausted ==
    /\ StreamReturned
    /\ program = OutputsThenHalt
    /\ driver.calls = 4
    /\ driver.before.is_terminated
    /\ driver.result.opt = None
    /\ ~TickedInCall

\* A request that returns a value and ticks no further than the Output.
C29_WitnessValue ==
    /\ StreamReturned
    /\ program = ThreeOutputs
    /\ driver.calls = 2
    /\ driver.result.opt = Some(2)
    /\ amp[0].address_ptr = 4
    /\ ~amp[0].is_terminated

\* The values of machine 0 that have left its output buffer.
Received == Len(produced[0]) - Len(amp[0].output_buffer)

\* C30: the output buffer is a queue of the values produced and not yet handed
\* out, in production order.  A tick of Output that returns Ok appends the value
\* of its operand at the back; every other tick, faulting or not, leaves the buffer
\* as it was.  A request hands out the oldest value not yet handed out, exactly
\* that one leaves the buffer, and None is returned only when every value produced
\* has been handed out; so also for values that run_to_termination accumulated.
C30_OutputBufferIsFifo ==
    /\ Received >= 0
    /\ amp[0].output_buffer = SubSeq(produced[0], Received + 1, Len(produced[0]))
    /\ Received <= driver.calls
    /\ prev.kind # "none" =>
          prev.after.output_buffer =
              IF prev.op = "Output" /\ prev.kind = "ok"
              THEN Append(prev.m.output_buffer, OperandValue(1))
              ELSE prev.m.output_buffer
    /\ StreamReturned =>
          IF driver.result.opt.some
          THEN /\ Received >= 1
               /\ driver.result.opt.v = produced[0][Received]
               /\ Len(amp[0].output_buffer) = Len(Front) - 1
          ELSE /\ Received = Len(produced[0])
               /\ Front = <<>>
    /\ stack = <<>> /\ driver.pc = "idle" /\ driver.fn = "run_to_termination" =>
          /\ Received = 0
          /\ amp[0].output_buffer = produced[0]

\* [104,1,104,2,104,3,99] run to termination, then drained: the third request has
\* returned 3 (after 1 and 2), the buffer is empty.
C30_Witness ==
    /\ StreamReturned
    /\ program = ThreeOutputs
    /\ driver.calls = 4
    /\ ~TickedInCall
    /\ prev.call = 1
    /\ prev.fn = "run_to_termination"
    /\ produced[0] = <<1, 2, 3>>
    /\ driver.result.opt = Some(3)
    /\ Received = 3

\* The outputs accumulated, two of them still in the buffer after the first request.
C30_WitnessAccumulated ==
    /\ StreamReturned
    /\ program = ThreeOutputs
    /\ driver.calls = 2
    /\ prev.call = 1
    /\ driver.result.opt = Some(1)
    /\ amp[0].output_buffer = <<2, 3>>

\* The last tick decoded the Halt: the word under the address pointer has the two
\* low digits 99 and valid mode digits.
DecodedHalt == DecodedOk /\ LowDigits(Word.v) = 99

\* C31: is_terminated is false and the address pointer 0 after init; a tick
\* leaves is_terminated true exactly if it was true before or the tick decoded
\* the operation code 99 (streaming generations); a tick that faults or panics
\* leaves it as it was; no step other than a tick changes it, and it is never
\* reset: a machine that has executed the Halt is terminated ever after.
C31_HaltedOnlyByHalt ==
    /\ prev.kind = "none" =>
          \A i \in Machines : ~amp[i].is_terminated /\ amp[i].address_ptr = 0
    /\ prev.kind # "none" =>
          /\ prev.after.is_terminated =
                (prev.m.is_terminated \/ (DecodedHalt /\ gen \in {"d07", "d11"}))
          /\ prev.kind \in {"err", "panic"} =>
                prev.after.is_terminated = prev.m.is_terminated
          /\ prev.kind = "halt" <=> DecodedHalt
          /\ amp[prev.i].is_terminated = prev.after.is_terminated
    /\ gen \in {"d07", "d11"} =>
          \A i \in Machines : amp[i].is_terminated = halted[i]

\* The Halt of [104,5,104,6,99,...] has been executed: the machine was running
\* before that tick and is terminated after it.
C31_Witness ==
    /\ gen = "d07"
    /\ program = OutputsThenHalt
    /\ DecodedHalt
    /\ prev.m.address_ptr = 4
    /\ ~prev.m.is_terminated
    /\ amp[0].is_terminated

\* A tick that faults on a machine that is not terminated, and a tick on a
\* terminated machine: the flag is as it was.
C31_WitnessFault ==
    /\ gen = "d07"
    /\ prev.kind = "err"
    /\ ~prev.m.is_terminated
    /\ ~amp[0].is_terminated

C31_WitnessStays ==
    /\ gen = "d07"
    /\ prev.kind = "ok"
    /\ prev.m.is_terminated
    /\ amp[0].is_terminated

(***************************************************************************)
(* The feedback loop of run_amps_part2                                     *)
(***************************************************************************)

\* The values the first machine has obtained from the shared queue, and the
\* values of the last machine that are on their way to the queue: the one the map
\* closure holds and the one still in the output buffer.
FedBack == SubSeq(consumed[0], 3, Len(consumed[0]))
OnTheWay ==
    (IF driver.pc \in {"map", "push"} THEN <<driver.value>> ELSE <<>>)
        \o amp[LastAmp].output_buffer

\* C32: the first machine of the feedback loop obtains its phase, then 0, then
\* the values of the shared queue front to back.  The queue receives the outputs
\* of the last machine and nothing else, each once and in output order: what the
\* first machine has obtained from the queue, followed by what the queue holds
\* and by the value on its way, is the sequence of outputs of the last machine.
\* So the (k+2)-th input of the first machine is the k-th output of the last.
C32_FeedbackOrder ==
    topology = "feedback" =>
        LET c == consumed[0]
        IN  /\ Len(c) >= 1 => c[1] = phase_settings[1]
            /\ Len(c) >= 2 => c[2] = 0
            /\ IsPrefix(FedBack \o pipe, produced[LastAmp])
            /\ \A k \in 1..(Len(c) - 2) : c[k + 2] = produced[LastAmp][k]
            /\ driver.result.kind # "panic" =>
                  produced[LastAmp] = FedBack \o pipe \o OnTheWay
            /\ fixed[0] # <<>> => pipe = <<>> /\ produced[LastAmp] = <<>>

\* The first machine has obtained its phase, the 0 and three outputs of the last
\* machine, all different.
C32_Witness ==
    /\ topology = "feedback"
    /\ program = FeedbackTest1
    /\ Len(consumed[0]) = 5
    /\ consumed[0][1] = phase_settings[1]
    /\ consumed[0][2] = 0
    /\ FedBack = SubSeq(produced[LastAmp], 1, 3)
    /\ \A a, b \in 1..3 : a # b => FedBack[a] # FedBack[b]

\* The first machine is inside an Input instruction that reads the shared queue
\* (the closure has called borrow_mut), and the queue is empty.
ReadsEmptyQueue ==
    /\ topology = "feedback"
    /\ stack # <<>>
    /\ Top.i = 0
    /\ Top.into # NoParam
    /\ "pop" \in pipe_borrow
    /\ pipe = <<>>

\* C33: when the first machine's Input reads the shared queue and the queue is
\* empty, the step that follows is the abort of the run (the panic of unwrap on
\* None): no machine changes, the first machine obtains no value, nothing is put
\* into the queue, and nothing runs afterwards.
C33_EmptyQueueAborts ==
    [][ReadsEmptyQueue =>
          /\ driver'.pc = "done"
          /\ driver'.result = Panicked
          /\ stack' = <<>>
          /\ amp' = amp
          /\ consumed' = consumed
          /\ produced' = produced
          /\ pipe' = <<>>]_vars

\* Hungry in the feedback loop: the first machine has taken its phase and the 0,
\* its third Input has found the queue empty, and the run has been aborted.
C33_Witness ==
    /\ topology = "feedback"
    /\ program = Hungry
    /\ driver.pc = "done"
    /\ driver.result = Panicked
    /\ consumed[0] = <<phase_settings[1], 0>>
    /\ amp[0].address_ptr = 6
    /\ amp[0].memory = [program EXCEPT ![10] = 0]
    /\ pipe = <<>>
    /\ stack = <<>>
    /\ prev.kind = "ok"

(***************************************************************************)
(* all_permutation: the recursion over the collection                     *)
(***************************************************************************)

\* The collections, builders and scoring functions all_permutation is entered
\* with: part1's call (collection 0..4, empty builder, f = run_amps on a program of
\* test_part1), and calls on small collections with a scoring function given by
\* a rule:
\*   "digits":  Ok(the decimal number the order spells)
\*   "same":    Ok(7) for every order
\*   "errs":    Err for an order that begins with the least phase, else Ok(-digits)
\*   "none":    Err for every order
TableCollections == {{}, {5}, {5, 6}, {5, 6, 7}}
TableBuilders == {<<>>, <<9>>}
ScoreRules == {"digits", "same", "errs", "none"}

RECURSIVE Digits(_)
Digits(b) == IF b = <<>> THEN 0 ELSE 10 * Digits(SubSeq(b, 1, Len(b) - 1)) + b[Len(b)]

Score(rule, b) ==
    CASE rule = "digits" -> [kind |-> "ok", v |-> Digits(b)]
      [] rule = "same" -> [kind |-> "ok", v |-> 7]
      [] rule = "errs" ->
            IF b # <<>> /\ \A k \in 1..Len(b) : b[1] <= b[k]
            THEN [kind |-> "err", v |-> 0]
            ELSE [kind |-> "ok", v |-> -Digits(b)]
      [] OTHER -> [kind |-> "err", v |-> 0]

\* A loop that keeps the value of the last order tried.
keep_last(curr, max) == curr

\* if curr > max { max = curr; }
larger(curr, max) == IF curr > max THEN curr ELSE max

\* No machines are running: f has not been called, or all_permutation was given a
\* scoring rule.
Parked ==
    [pc |-> "parked", calls |-> 0, fn |-> "none", value |-> 0, last |-> None,
     result |-> NoResult, before |-> init(<<>>), was_halted |-> FALSE]

InitPermute ==
    \E mode \in {"part1", "table"} :
    \E tape \in (IF mode = "part1" THEN {AmpTest1, AmpTest2, AmpTest3} ELSE {<<99>>}),
       c \in (IF mode = "part1" THEN {0..4} ELSE TableCollections),
       b \in (IF mode = "part1" THEN {<<>>} ELSE TableBuilders),
       rule \in (IF mode = "part1" THEN {"run_amps"} ELSE ScoreRules) :
        /\ gen = "d07"
        /\ overflow_checks = TRUE
        /\ topology = "chain"
        /\ program = tape
        /\ phase_settings = <<>>
        /\ inputs = <<>>
        /\ amp = [i \in 0..LastAmp |-> init(tape)]
        /\ fixed = [i \in 0..LastAmp |-> <<>>]
        /\ pipe = <<>>
        /\ pipe_borrow = {}
        /\ stack = <<>>
        /\ driver = Parked
        /\ produced = [i \in 0..LastAmp |-> <<>>]
        /\ consumed = [i \in 0..LastAmp |-> <<>>]
        /\ halted = [i \in 0..LastAmp |-> FALSE]
        /\ prev = [i |-> 0, m |-> init(tape), fn |-> "none", kind |-> "none",
                   op |-> "none", after_halt |-> FALSE, pulled |-> FALSE, why |-> "",
                   after |-> init(tape), took |-> None, call |-> 0]
        /\ search = [pc |-> "call", todo |-> {}, max |-> I32Min, mode |-> mode,
                     rule |-> rule, collection |-> c, builder |-> b,
                     entry |-> [collection |-> c, builder |-> b], frames |-> <<>>,
                     seen |-> {}, evals |-> 0, ret |-> 0]

MachinesUnchanged ==
    UNCHANGED <<gen, overflow_checks, topology, program, phase_settings, inputs, amp,
                fixed, pipe, pipe_borrow, stack, driver, produced, consumed, halted,
                prev>>

\* A call with a non-empty collection: items is the collection, max is
\* i32::min_value(), and the loop begins.
PermuteEnter ==
    /\ search.pc = "call"
    /\ search.collection # {}
    /\ search' = [search EXCEPT
                     !.frames = Append(@, [items |-> search.collection, max |-> I32Min,
                                           ele |-> 0]),
                     !.pc = "loop"]
    /\ MachinesUnchanged

\* for ele in items: collection.remove(&ele); builder.push(ele); the recursive
\* call.  The order of items is that of the HashSet's iterator: any (part1's
\* collection is taken in ascending order here).
PermuteDescend ==
    /\ search.pc = "loop"
    /\ LET top == search.frames[Len(search.frames)]
       IN  \E ele \in top.items :
               /\ search.mode = "part1" => \A other \in top.items : ele <= other
               /\ search' = [search EXCEPT
                                !.frames[Len(search.frames)].items = @ \ {ele},
                                !.frames[Len(search.frames)].ele = ele,
                                !.collection = @ \ {ele},
                                !.builder = Append(@, ele),
                                !.pc = "call"]
    /\ MachinesUnchanged

\* The loop is over: the call returns max.
PermuteLoopEnds ==
    /\ search.pc = "loop"
    /\ LET top == search.frames[Len(search.frames)]
       IN  /\ top.items = {}
           /\ search' = [search EXCEPT
                            !.frames = SubSeq(@, 1, Len(@) - 1),
                            !.ret = top.max,
                            !.pc = "return"]
    /\ MachinesUnchanged

\* A call with the empty collection: f(input, builder).unwrap_or(i32::min_value())
\* with f a scoring rule ...
PermuteLeafTable ==
    /\ search.pc = "call"
    /\ search.collection = {}
    /\ search.mode = "table"
    /\ LET r == Score(search.rule, search.builder)
           tr == IF r.kind = "ok" THEN r.v ELSE I32Min
       IN  search' = [search EXCEPT
                         !.seen = @ \cup {<<search.builder, tr>>},
                         !.evals = @ + 1,
                         !.ret = tr,
                         !.pc = "return"]
    /\ MachinesUnchanged

\* ... or with f = run_amps, which builds five machines and wires them up ...
PermuteLeafRuns ==
    /\ search.pc = "call"
    /\ search.collection = {}
    /\ search.mode = "part1"
    /\ search' = [search EXCEPT !.pc = "f"]
    /\ phase_settings' = search.builder
    /\ amp' = [i \in Machines |-> init(program)]
    /\ fixed' = [i \in Machines |-> Literals(topology, search.builder, inputs, i)]
    /\ pipe' = <<>>
    /\ pipe_borrow' = {}
    /\ stack' = <<>>
    /\ driver' = [Parked EXCEPT !.pc = "idle", !.before = init(program)]
    /\ produced' = [i \in Machines |-> <<>>]
    /\ consumed' = [i \in Machines |-> <<>>]
    /\ halted' = [i \in Machines |-> FALSE]
    /\ prev' = [i |-> 0, m |-> init(program), fn |-> "none", kind |-> "none",
                op |-> "none", after_halt |-> FALSE, pulled |-> FALSE, why |-> "",
                after |-> init(program), took |-> None, call |-> 0]
    /\ UNCHANGED <<gen, overflow_checks, topology, program, inputs>>

\* ... and returns.
PermuteLeafReturns ==
    /\ search.pc = "f"
    /\ driver.pc = "done"
    /\ driver.result # Panicked
    /\ search' = [search EXCEPT
                     !.seen = @ \cup {<<search.builder, LeafValue>>},
                     !.evals = @ + 1,
                     !.ret = LeafValue,
                     !.pc = "return"]
    /\ MachinesUnchanged

\* Back in the loop of the caller: if curr > max { max = curr; } builder.pop();
\* collection.insert(ele).  The outermost call returns to part1.
PermuteReturn ==
    /\ search.pc = "return"
    /\ IF search.frames = <<>>
       THEN search' = [search EXCEPT !.pc = "returned"]
       ELSE LET top == search.frames[Len(search.frames)]
            IN  search' = [search EXCEPT
                              !.frames[Len(search.frames)].max = larger(search.ret, @),
                              !.builder = SubSeq(@, 1, Len(@) - 1),
                              !.collection = @ \cup {top.ele},
                              !.pc = "loop"]
    /\ MachinesUnchanged

NextPermute ==
    \/ PermuteEnter \/ PermuteDescend \/ PermuteLoopEnds \/ PermuteLeafTable
    \/ PermuteLeafRuns \/ PermuteLeafReturns \/ PermuteReturn
    \/ CallNext \/ Tick \/ Pull \/ NextRuns \/ ReturnToDriver \/ Deliver

SpecPermute == InitPermute /\ [][NextPermute]_vars

\* The orders of a set, and the builders all_permutation calls f with.
OrdersOf(S) ==
    {p \in [1..Cardinality(S) -> S] : \A a, b \in 1..Cardinality(S) : a # b => p[a] # p[b]}
LeafBuilders == {search.entry.builder \o p : p \in OrdersOf(search.entry.collection)}

\* Builder b is the entry builder followed by an order of the entry collection.
IsLeafBuilder(b) ==
    LET n == Len(search.entry.builder)
    IN  /\ Len(b) = n + Cardinality(search.entry.collection)
        /\ SubSeq(b, 1, n) = search.entry.builder
        /\ {b[k] : k \in (n + 1)..Len(b)} = search.entry.collection

\* The greatest of a non-empty set of scores.
Greatest(S) == CHOOSE x \in S : \A y \in S : y <= x

\* The score of builder b: Ok(v) counts v, Err counts i32::min_value().
TableScore(b) ==
    LET r == Score(search.rule, b) IN IF r.kind = "ok" THEN r.v ELSE I32Min

\* C34: when all_permutation returns, f has been called once with every order of
\* the collection appended to the builder, and with nothing else; the value
\* returned is the greatest of the scores (an Err counting as i32::min_value());
\* the collection and the builder are as on entry; between two calls of f the
\* builder and the collection partition the entry collection.  part1 on the three
\* programs of test_part1 returns 43210, 54321 and 65210, the scores of the
\* orders [4,3,2,1,0], [0,1,2,3,4] and [1,0,4,3,2].
C34_AllPermutation ==
    /\ search.pc \in {"call", "loop", "return", "f", "returned"} =>
          /\ {search.builder[k] : k \in (Len(search.entry.builder) + 1)..Len(search.builder)}
                \cup search.collection = search.entry.collection
          /\ Len(search.builder) + Cardinality(search.collection)
                = Len(search.entry.builder) + Cardinality(search.entry.collection)
          /\ \A s \in search.seen : IsLeafBuilder(s[1])
          /\ search.evals = Cardinality({s[1] : s \in search.seen})
          /\ search.mode = "table" =>
                \A s \in search.seen : s[2] = TableScore(s[1])
    /\ search.pc = "returned" =>
          /\ {s[1] : s \in search.seen} = LeafBuilders
          /\ search.evals = Cardinality(LeafBuilders)
          /\ Cardinality(search.seen) = Cardinality(LeafBuilders)
          /\ search.ret = Greatest({s[2] : s \in search.seen})
          /\ search.collection = search.entry.collection
          /\ search.builder = search.entry.builder
          /\ search.mode = "table" =>
                search.ret = Greatest({TableScore(b) : b \in LeafBuilders})
          /\ search.mode = "part1" =>
                /\ Cardinality(search.seen) = 120
                /\ program = AmpTest1 =>
                      search.ret = 43210 /\ <<<<4,3,2,1,0>>, 43210>> \in search.seen
                /\ program = AmpTest2 =>
                      search.ret = 54321 /\ <<<<0,1,2,3,4>>, 54321>> \in search.seen
                /\ program = AmpTest3 =>
                      search.ret = 65210 /\ <<<<1,0,4,3,2>>, 65210>> \in search.seen

\* part1 has returned 65210 on the third program after 120 calls of run_amps.
C34_Witness ==
    /\ search.pc = "returned"
    /\ search.mode = "part1"
    /\ program = AmpTest3
    /\ search.evals = 120
    /\ search.ret = 65210
    /\ search.collection = 0..4
    /\ search.builder = <<>>

\* A collection of three, a builder that is not empty, some scores an Err: six
\* calls, and the greatest score is not the last one.
C34_WitnessTable ==
    /\ search.pc = "returned"
    /\ search.rule = "errs"
    /\ search.entry = [collection |-> {5, 6, 7}, builder |-> <<9>>]
    /\ search.evals = 6
    /\ search.ret = -9567
    /\ search.builder = <<9>>

\* The empty collection: f is called once, with the builder.
C34_WitnessEmpty ==
    /\ search.pc = "returned"
    /\ search.entry = [collection |-> {}, builder |-> <<9>>]
    /\ search.seen = {<<<<9>>, 9>>}

(***************************************************************************)
(* Laziness of the chain of run_amps                                       *)
(***************************************************************************)

\* A program that, having read its phase and a value x, reads a second value if
\* x is not 0, and then outputs 1 and 2: every machine but the first asks the
\* machine before it twice.
AsksTwice == <<3,20,3,21,1006,21,9,3,22,104,1,104,2,99,0,0,0,0,0,0,0,0,0>>

InitLazy ==
    \E tape \in {AmpTest1, AmpTest3, RelayTwice, NoOutput, AsksTwice},
       p \in PhaseOrders(0..4),
       checks \in BOOLEAN :
        InitWith("d07", checks, "chain", tape, p, <<>>)

SpecLazy == InitLazy /\ [][NextChain]_vars

\* Machine i has executed a tick.
HasTicked(i) == amp[i] # init(program)

\* Machine i has a call in progress (it is ticking or waits in an Input).
Running(i) == \E k \in 1..Len(stack) : stack[k].i = i

\* The values the consumer of machine i has taken: the machine after it, or
\* run_amps for the last machine.
TakenFrom(i) ==
    IF i < LastAmp THEN UpstreamValues(i + 1)
    ELSE IF driver.pc = "done" /\ driver.result.kind = "ok" THEN <<driver.result.opt.v>>
    ELSE <<>>

C35_WitnessPhase ==
    /\ topology = "chain"
    /\ Requesting(1)
    /\ consumed[1] = <<phase_settings[2]>>
    /\ ~HasTicked(0)

\* AsksTwice: the first machine has been asked twice and has executed its second
\* Output after the Output whose value the second machine took.
C35_WitnessTwice ==
    /\ PipelineOver
    /\ program = AsksTwice
    /\ driver.result.opt = Some(1)
    /\ produced[0] = <<1, 2>>
    /\ UpstreamValues(1) = <<1, 2>>
    /\ produced[LastAmp] = <<1>>

\* The first machine's Input has borrowed the shared queue and is about to pop it.
ReadsQueue ==
    /\ topology = "feedback"
    /\ "pop" \in pipe_borrow

\* C36: with the programs of test_part2 the shared queue never holds more than
\* one value, it holds one whenever the first machine reads it, and it holds none
\* while a value of the last machine is on its way to it; the run is never
\* aborted.
C36_QueueHoldsAtMostOne ==
    topology = "feedback" /\ program \in {FeedbackTest1, FeedbackTest2} =>
        /\ Len(pipe) <= 1
        /\ ReadsQueue => Len(pipe) = 1
        /\ OnTheWay # <<>> => pipe = <<>>
        /\ driver.result.kind # "panic"
        /\ pipe # <<>> => pipe = <<Last(produced[LastAmp])>>

\* The first machine reads the queue in the second round of the first test
\* program: the queue holds the first output of the last machine.
C36_Witness ==
    /\ ReadsQueue
    /\ program = FeedbackTest1
    /\ Len(consumed[0]) = 2
    /\ Len(produced[LastAmp]) = 1
    /\ pipe = produced[LastAmp]

\* The last read of a run of the second test program.
C36_WitnessLater ==
    /\ ReadsQueue
    /\ program = FeedbackTest2
    /\ Len(consumed[0]) = 10
    /\ pipe = <<Last(produced[LastAmp])>>

(***************************************************************************)
(* The batch run of day 5 and the output sequence of day 7 on one program  *)
(***************************************************************************)

\* The most passes of the loop of run that are followed.
MaxTicks == 16

\* IntCode::run of day 5 on machine m with the input list input_stream: the loop
\* of read_instruction and match, until Terminate returns Ok((memory, output)) or
\* a ? returns the Err (kind "fuel": more than the passes followed).
RECURSIVE run(_, _, _, _)
run(m, input_stream, checks, fuel) ==
    IF fuel = 0 THEN [kind |-> "fuel", memory |-> m.memory, output |-> m.output_buffer]
    ELSE LET input_value == IF input_stream # <<>> THEN Some(Head(input_stream)) ELSE None
             o == run_tick("d05", m, input_value, checks)
         IN  IF o.kind = "halt"
             THEN [kind |-> "ok", memory |-> o.m.memory, output |-> o.m.output_buffer]
             ELSE IF o.kind # "ok"
             THEN [kind |-> o.kind, memory |-> o.m.memory, output |-> o.m.output_buffer]
             ELSE run(o.m, IF o.pulled THEN pop_front(input_stream) ELSE input_stream,
                      checks, fuel - 1)

\* The batch run on the program and the input list of this behaviour.
Batch == run(init(program), inputs, overflow_checks, MaxTicks)

TwinTapes ==
    {OutputsThenHalt, ThreeOutputs, OutputAfterHalt, EchoInput, InOutTest, HaltThenAdd,
     AddThenHalt, OutputBadOutput, Day5Complex, ArithTest5, OverwritesOperand,
     EqualTo8Position, LessThan8Immediate, JumpPosition, ReadBeyond, MulOverflowBeyond}

\* The consumer of the output sequence of a day 7 machine keeps what next() has
\* returned, in order.
InitTwin ==
    \E checks \in BOOLEAN, inp \in InputLists, tape \in TwinTapes :
        /\ InitRun("d07", checks, "single", tape, <<>>, inp)
        /\ search = [pc |-> "consumer", todo |-> {}, max |-> 0, log |-> <<>>]

\* The consumer calls next(), having kept what the call before returned, and
\* stops at the first None.
TwinCall ==
    /\ driver.pc = "idle"
    /\ stack = <<>>
    /\ driver.calls < MaxNexts + 1
    /\ Len(search.log) = driver.calls
    /\ \A k \in 1..Len(search.log) : search.log[k].some
    /\ stack' = <<Frame("next", 0)>>
    /\ driver' = [driver EXCEPT !.pc = "calling", !.calls = @ + 1, !.fn = "next",
                                !.before = amp[0], !.was_halted = halted[0]]
    /\ UNCHANGED <<Fixed, amp, fixed, pipe, pipe_borrow, produced, consumed, halted, prev>>

TwinTake ==
    /\ driver.pc = "idle"
    /\ stack = <<>>
    /\ Len(search.log) < driver.calls
    /\ search' = [search EXCEPT !.log = Append(@, driver.result.opt)]
    /\ UNCHANGED <<gen, overflow_checks, topology, program, phase_settings, inputs, amp,
                   fixed, pipe, pipe_borrow, stack, driver, produced, consumed, halted,
                   prev>>

NextTwin == TwinCall \/ TwinTake \/ Tick \/ NextRuns \/ ReturnToDriver

SpecTwin == InitTwin /\ [][NextTwin]_vars

\* The values next() has returned so far, and whether it has returned None.
Yielded == [k \in 1..Len(SelectSeq(search.log, LAMBDA r : r.some)) |->
               SelectSeq(search.log, LAMBDA r : r.some)[k].v]
Exhausted == search.log # <<>> /\ ~Last(search.log).some

\* C37: if the batch run of day 5 on a program and an input list returns Ok, the
\* output sequence of the day 7 machine on the same program and list does not
\* abort, the values it yields are the outputs of the batch run in order, it
\* returns None when it has yielded all of them and not before, and the memory is
\* then the memory the batch run returns.
C37_StreamEqualsBatch ==
    Batch.kind = "ok" =>
        /\ driver.result.kind # "panic"
        /\ IsPrefix(Yielded, Batch.output)
        /\ Exhausted =>
              /\ Yielded = Batch.output
              /\ amp[0].memory = Batch.memory
              /\ amp[0].is_terminated
        /\ Len(search.log) > Len(Batch.output) => Exhausted
        /\ amp[0].is_terminated => amp[0].memory = Batch.memory

\* test_day5_complex with the input 7: the batch run returns [999]; next() has
\* returned Some(999) and then None.
C37_Witness ==
    /\ program = Day5Complex
    /\ inputs = <<7>>
    /\ Batch.kind = "ok"
    /\ Batch.output = <<999>>
    /\ search.log = <<Some(999), None>>
    /\ amp[0].memory = Batch.memory
    /\ amp[0].memory # program

\* Three outputs and the None after them.
C37_WitnessThree ==
    /\ program = ThreeOutputs
    /\ Batch.kind = "ok"
    /\ Exhausted
    /\ Yielded = <<1, 2, 3>>

\* A batch run that returns Err: the output sequence has yielded 7 and then
\* aborted.
C37_WitnessErr ==
    /\ program = OutputBadOutput
    /\ Batch.kind = "err"
    /\ Yielded = <<7>>
    /\ driver.result = Panicked

(***************************************************************************)
(* The machine of day 7 and the machine of day 11 on one program           *)
(***************************************************************************)

\* Products and sums that leave the i32 range in the machine of day 7.
WrapsToZero == <<1102,65536,65536,0,99>>
WrapsSum == <<1,7,7,8,4,8,99,2147483647,0>>

RefineTapes ==
    TapesOf("d07") \cup
    {WrapsToZero, WrapsSum, Day5Complex, ThreeOutputs, EqualTo8Position,
     LessThan8Immediate, JumpPosition, JumpImmediate}

\* Machine 0 is a machine of day 7 and machine 1 a machine of day 11, constructed
\* from the same program, each with its own copy of the same input list.  For each
\* machine, ops is the sequence of the instructions it has executed (operation and
\* address), kind how its last tick ended ("run": the machine can tick).  wide is
\* the set of addresses of machine 1 whose i64 value does not fit 32 bits: the
\* model keeps the low 32 bits of such a cell and does not follow the machine
\* into a tick that reads one (kind "lost").  wrapped tells whether a sum or a
\* product of machine 0 has wrapped.
GenOf(i) == IF i = 0 THEN "d07" ELSE "d11"

InitRefine ==
    \E checks \in BOOLEAN, inp \in InputLists, tape \in RefineTapes :
        /\ gen = "d07"
        /\ overflow_checks = checks
        /\ topology = "single"
        /\ program = tape
        /\ phase_settings = <<>>
        /\ inputs = inp
        /\ amp = [i \in 0..1 |-> init(tape)]
        /\ fixed = [i \in 0..1 |-> inp]
        /\ pipe = <<>>
        /\ pipe_borrow = {}
        /\ stack = <<>>
        /\ driver = Parked
        /\ produced = [i \in 0..1 |-> <<>>]
        /\ consumed = [i \in 0..1 |-> <<>>]
        /\ halted = [i \in 0..1 |-> FALSE]
        /\ prev = [i |-> 0, m |-> init(tape), fn |-> "none", kind |-> "none",
                   op |-> "none", after_halt |-> FALSE, pulled |-> FALSE, why |-> "",
                   after |-> init(tape), took |-> None, call |-> 0]
        /\ search = [pc |-> "twin", todo |-> {}, max |-> 0,
                     ops |-> [i \in 0..1 |-> <<>>], kind |-> [i \in 0..1 |-> "run"],
                     wide |-> {}, wrapped |-> FALSE]

\* The exact sum or product of an Add or Mul decoded by d on machine m leaves the
\* 32-bit range.
LeavesI32(m, d) ==
    /\ d.ok
    /\ d.instruction.op \in {"Add", "Mul"}
    /\ LET left == resolve_parameter_value("d11", m, d.instruction.p1).v
           right == resolve_parameter_value("d11", m, d.instruction.p2).v
       IN  WordOp("d07", IF d.instruction.op = "Add" THEN "+" ELSE "*",
                  left, right, FALSE).overflow

\* The Add or Mul arm of day 11 whose i64 result does not fit 32 bits: the write
\* of the result, of which the low 32 bits are kept.
WideCompute(m, d) ==
    LET i == d.instruction
        left == resolve_parameter_value("d11", m, i.p1).v
        right == resolve_parameter_value("d11", m, i.p2).v
        low == WordOp("d07", IF i.op = "Add" THEN "+" ELSE "*", left, right, FALSE).v
    IN  Written(write_memory("d11", d.m, i.p3, low, overflow_checks), i.op, FALSE)

\* What a tick of machine i leaves in the histories of the machine.
Recorded(i, o, took) ==
    /\ amp' = [amp EXCEPT ![i] = o.m]
    /\ fixed' = IF o.pulled THEN [fixed EXCEPT ![i] = pop_front(@)] ELSE fixed
    /\ produced' = IF o.op = "Output" /\ o.kind = "ok"
                   THEN [produced EXCEPT
                            ![i] = Append(@, o.m.output_buffer[Len(o.m.output_buffer)])]
                   ELSE produced
    /\ consumed' = IF o.pulled THEN [consumed EXCEPT ![i] = Append(@, took.v)]
                   ELSE consumed
    /\ halted' = IF o.kind = "halt" THEN [halted EXCEPT ![i] = TRUE] ELSE halted

Executed(i, o) ==
    Append(search.ops[i], [op |-> o.op, at |-> amp[i].address_ptr])

EndedAs(o) == IF o.kind = "ok" THEN "run" ELSE o.kind

\* run_tick on the machine of day 7.
StrictTick ==
    /\ search.kind[0] = "run"
    /\ Len(search.ops[0]) < MaxTicks
    /\ \E input_value \in {IF fixed[0] # <<>> THEN Some(Head(fixed[0])) ELSE None} :
       \E wraps \in {LeavesI32(amp[0], read_instruction("d07", amp[0]))} :
       \E o \in {run_tick("d07", amp[0], input_value, overflow_checks)} :
           /\ Recorded(0, o, input_value)
           /\ search' = [search EXCEPT !.ops[0] = Executed(0, o),
                                       !.kind[0] = EndedAs(o),
                                       !.wrapped = @ \/ (wraps /\ o.kind = "ok")]
    /\ UNCHANGED <<gen, overflow_checks, topology, program, phase_settings, inputs,
                   pipe, pipe_borrow, stack, driver, prev>>

\* run_tick on the machine of day 11, its memory holding 32-bit values only.
LenientTick ==
    /\ search.kind[1] = "run"
    /\ search.wide = {}
    /\ Len(search.ops[1]) < MaxTicks
    /\ \E input_value \in {IF fixed[1] # <<>> THEN Some(Head(fixed[1])) ELSE None} :
       \E d \in {read_instruction("d11", amp[1])} :
       \E is_wide \in {LeavesI32(amp[1], d)} :
       \E o \in {IF is_wide THEN WideCompute(amp[1], d)
                  ELSE run_tick("d11", amp[1], input_value, overflow_checks)} :
       \E into \in {d.instruction.p3} :
           /\ Recorded(1, o, input_value)
           /\ search' = [search EXCEPT
                            !.ops[1] = Executed(1, o),
                            !.kind[1] = EndedAs(o),
                            !.wide = IF is_wide /\ o.kind = "ok"
                                     THEN {IF into.t = "Relative"
                                           THEN amp[1].relative_ptr + into.v
                                           ELSE into.v}
                                     ELSE {}]
    /\ UNCHANGED <<gen, overflow_checks, topology, program, phase_settings, inputs,
                   pipe, pipe_borrow, stack, driver, prev>>

\* run_tick on the machine of day 11 with a value beyond 32 bits in its memory:
\* the Terminate at the address pointer is executed; any other tick is not followed.
LenientTickWide ==
    /\ search.kind[1] = "run"
    /\ search.wide # {}
    /\ Len(search.ops[1]) < MaxTicks
    /\ \E d \in {read_instruction("d11", amp[1])} :
           IF amp[1].address_ptr \notin search.wide /\ d.ok
              /\ d.instruction.op = "Terminate"
           THEN \E o \in {run_tick("d11", amp[1], None, overflow_checks)} :
                /\ Recorded(1, o, None)
                /\ search' = [search EXCEPT !.ops[1] = Executed(1, o),
                                            !.kind[1] = EndedAs(o)]
           ELSE /\ search' = [search EXCEPT !.kind[1] = "lost"]
                /\ UNCHANGED <<amp, fixed, produced, consumed, halted>>
    /\ UNCHANGED <<gen, overflow_checks, topology, program, phase_settings, inputs,
                   pipe, pipe_borrow, stack, driver, prev>>

NextRefine == StrictTick \/ LenientTick \/ LenientTickWide

SpecRefine == InitRefine /\ [][NextRefine]_vars

\* The machine of day 7 has halted: every tick of it returned Ok and the last one
\* executed Terminate.
StrictHalted == search.kind[0] = "halt"

\* The two machines have executed the same instructions and are in the same state.
SameRun ==
    /\ search.kind[1] = "halt"
    /\ search.ops[1] = search.ops[0]
    /\ produced[1] = produced[0]
    /\ amp[1].output_buffer = amp[0].output_buffer
    /\ amp[1].address_ptr = amp[0].address_ptr
    /\ amp[1].memory = amp[0].memory
    /\ search.wide = {}
    /\ amp[1].relative_ptr = 0
    /\ Len(amp[1].memory) = Len(program)

\* The machine of day 11 has done what the machine of day 7 did, as far as it got.
SameSoFar ==
    /\ search.kind[1] \in {"run", "halt", "lost"}
    /\ IsPrefix(search.ops[1], search.ops[0])
    /\ IsPrefix(produced[1], produced[0])
    /\ amp[1].relative_ptr = 0
    /\ Len(amp[1].memory) = Len(program)

\* C38 as claimed: on every program and input on which the machine of day 7 halts
\* without fault, the machine of day 11 executes the same instructions and ends
\* with the same outputs, instruction pointer and memory, relative base 0 and the
\* memory length unchanged.
C38_LenientRefinesStrict ==
    StrictHalted =>
        /\ SameSoFar
        /\ search.kind[1] = "halt" => SameRun

\* C38: the same, for the runs of the machine of day 7 in which no sum and no
\* product leaves the i32 range (a build that checks overflow aborts on one, and
\* one that does not keeps the low 32 bits where day 11 keeps the i64 value).
C38_LenientRefinesStrictInI32 ==
    StrictHalted /\ ~search.wrapped =>
        /\ SameSoFar
        /\ search.kind[1] # "lost"
        /\ search.wide = {}
        /\ search.kind[1] = "halt" => SameRun

\* test_day5_complex with the input 7: both machines have halted after the same
\* instructions with the output 999.
C38_Witness ==
    /\ program = Day5Complex
    /\ inputs = <<7>>
    /\ StrictHalted
    /\ SameRun
    /\ Len(search.ops[1]) > 5
    /\ produced[1] = <<999>>
    /\ amp[1].memory # program

\* 65536 * 65536 in a build without overflow checks: day 7 has stored 0 and
\* halted, day 11 has stored 2^32 and halted.
C38_WitnessWrapped ==
    /\ program = WrapsToZero
    /\ StrictHalted
    /\ search.kind[1] = "halt"
    /\ search.wrapped
    /\ search.wide = {0}
    /\ amp[0].memory[1] = 0

\* A read outside the memory: day 7 has returned Err where day 11 has gone on.
C38_WitnessFault ==
    /\ search.kind[0] = "err"
    /\ search.kind[1] = "halt"
    /\ Len(search.ops[1]) > Len(search.ops[0])

(***************************************************************************)
(* The panic arm of write_memory                                           *)
(***************************************************************************)

\* The arm of write_memory that panics: the target is no Ref (and, in day 11, no
\* Relative).
ImmediateTarget(g, into) ==
    into.t \notin {"Ref", "Relative"} \/ (into.t = "Relative" /\ Strict(g))

\* The position, among the parameters of the operation of the last tick, of the
\* parameter its arm hands to write_memory.
HandedToWrite == IF prev.op = "Input" THEN 1 ELSE 3

\* C39: the panic arm of write_memory is not reached through a tick.  Whatever
\* the memory holds, the parameter a tick hands to write_memory is the one
\* read_parameter has decoded with is_writing = true, and it is a Position
\* parameter (or, in day 11, a Relative one); a word with the Immediate digit on
\* that parameter has made the decode return Err, so that no write is attempted.
\* A tick that panics does so on an overflowing sum or product or on a target
\* address that came out negative.
C39_WriteTargetIsNeverImmediate ==
    /\ WriteAttempted =>
          /\ Writing(prev.op)[HandedToWrite]
          /\ WriteParameter.t \in {"Ref", "Relative"}
          /\ WriteParameter.t = "Relative" => gen = "d11"
          /\ ~ImmediateTarget(gen, WriteParameter)
          /\ ModeDigit(Word.v, HandedToWrite) # 1
          /\ prev.kind = "panic" =>
                \/ overflow_checks /\ Overflows(Decoded.m, Decoded.instruction)
                \/ gen = "d11" /\ AddressOf(Decoded.m, WriteParameter) < 0
    /\ WriteImmediate => ~WriteAttempted /\ prev.kind = "err"
    /\ prev.kind = "panic" => WriteAttempted \/ Overflows(Decoded.m, Decoded.instruction)

\* Day 11: a tick has written through a Relative parameter.
C39_Witness ==
    /\ gen = "d11"
    /\ WriteAttempted
    /\ WriteParameter.t = "Relative"
    /\ ModeDigit(Word.v, HandedToWrite) = 2
    /\ prev.kind = "ok"
    /\ amp[0].memory # prev.m.memory

\* Day 7: a tick has written through a Position parameter.
C39_WitnessPosition ==
    /\ gen = "d07"
    /\ WriteAttempted
    /\ WriteParameter.t = "Ref"
    /\ prev.op = "Input"
    /\ prev.kind = "ok"

\* The Immediate digit on the write parameter: the decode has returned Err and
\* the write was not attempted.
C39_WitnessImmediate ==
    /\ WriteImmediate
    /\ prev.kind = "err"
    /\ ~Decoded.ok
    /\ ~WriteAttempted
    /\ prev.why = "Invalid parameter type: parameter is for a write operation"
    /\ gen = "d05"

\* A tick that has panicked in write_memory, on the address and not on the kind of
\* the target.
C39_WitnessPanic ==
    /\ gen = "d11"
    /\ WriteAttempted
    /\ prev.kind = "panic"
    /\ WriteParameter.t = "Ref"

(***************************************************************************)
(* The length of the memory                                                *)
(***************************************************************************)

\* The last tick has attempted a write to an address at or beyond the length of
\* the memory (a negative address stands for the usize a negative word casts to).
WroteBeyond ==
    /\ WriteAttempted
    /\ LET a == AddressOf(Decoded.m, WriteParameter)
       IN  a >= Len(prev.m.memory) \/ a < 0

\* The last tick has emptied the memory: a write to the address usize::MAX in a
\* build without overflow checks, where address + 1 is 0.
Emptied ==
    /\ gen = "d11"
    /\ ~overflow_checks
    /\ WriteAttempted
    /\ AddressOf(Decoded.m, WriteParameter) = -1
    /\ prev.kind = "err"
    /\ prev.after.memory = <<>>

\* C40 as claimed: the length of the memory never decreases.  In days 5 and 7 it
\* is the length of the program in every state.  In day 11 a tick changes it only
\* if it is an Ok tick of Add, Mul, Input, LessThan or Equals that writes to an
\* address at or beyond the length; every other tick, and every tick that
\* returns Err, leaves it as it was.
C40_MemoryLengthNeverDecreases ==
    /\ gen \in {"d05", "d07"} => Len(amp[0].memory) = Len(program)
    /\ Len(amp[0].memory) >= Len(program)
    /\ prev.kind # "none" =>
          /\ Len(prev.after.memory) >= Len(prev.m.memory)
          /\ Len(prev.after.memory) # Len(prev.m.memory) =>
                /\ gen = "d11"
                /\ prev.kind = "ok"
                /\ prev.op \in {"Add", "Mul", "Input", "LessThan", "Equals"}
                /\ WroteBeyond
          /\ prev.kind \in {"err", "panic"} =>
                Len(prev.after.memory) = Len(prev.m.memory)

\* C40, what holds: the same, but for the write to the address usize::MAX in a
\* build without overflow checks, whose tick returns Err and leaves the memory
\* empty; no tick ticks after it has done so (the decode finds no word).
C40_MemoryLengthButEmptied ==
    /\ gen \in {"d05", "d07"} => Len(amp[0].memory) = Len(program)
    /\ Len(amp[0].memory) >= Len(program) \/ amp[0].memory = <<>>
    /\ amp[0].memory = <<>> /\ program # <<>> => gen = "d11" /\ ~overflow_checks
    /\ prev.kind # "none" /\ ~Emptied =>
          /\ Len(prev.after.memory) >= Len(prev.m.memory)
          /\ Len(prev.after.memory) # Len(prev.m.memory) =>
                /\ gen = "d11"
                /\ prev.kind = "ok"
                /\ prev.op \in {"Add", "Mul", "Input", "LessThan", "Equals"}
                /\ WroteBeyond
                /\ Len(prev.after.memory) = AddressOf(Decoded.m, WriteParameter) + 1
          /\ prev.kind \in {"err", "panic"} =>
                Len(prev.after.memory) = Len(prev.m.memory)

\* [1101,1,2,-1,99] on the machine of day 11 in a build without overflow checks:
\* the Add has returned Err and the memory, of length 5 before, is empty.
C40_Witness ==
    /\ program = WriteMinusOne
    /\ Emptied
    /\ Len(prev.m.memory) = 5
    /\ Len(amp[0].memory) = 0
    /\ driver.result.kind = "err"

\* Day 11: an Ok tick has made the memory longer.
C40_WitnessGrows ==
    /\ gen = "d11"
    /\ prev.kind = "ok"
    /\ WroteBeyond
    /\ Len(prev.after.memory) > Len(prev.m.memory)
    /\ Len(amp[0].memory) > Len(program)

\* Day 7: a tick that has written, the length as it was.
C40_WitnessStrict ==
    /\ gen = "d07"
    /\ prev.kind = "ok"
    /\ WriteAttempted
    /\ amp[0].memory # program
    /\ Len(amp[0].memory) = Len(program)

====
